---- MODULE Spec2Model ----
(***************************************************************************)
(* KlipperIWC: the status broadcaster (websocket/gateway.py), the status   *)
(* history store (repositories/status_history.py, services/status.py,      *)
(* db/session.py, db/models.py) and the retention loop (app.py).           *)
(*                                                                         *)
(* The broadcaster runs on one asyncio event loop.  Its lock is never held *)
(* across a suspension point (the bodies of all four `async with` blocks   *)
(* contain no await), so acquiring it never suspends and connect,          *)
(* disconnect, publish and reset each run to completion without yielding:  *)
(* each is one action.  A subscriber's `await queue.get()` completes when  *)
(* its queue is non-empty: one action guarded by a non-empty queue.        *)
(***************************************************************************)
EXTENDS Integers, Sequences, FiniteSets, TLC

\* ------------------------------------------------------------------ bounds
MaxSubs == 2
MaxPublish == 3

\* asyncio.Queue(maxsize=1) in StatusBroadcaster.connect
QueueMaxSize == 1

Subs == 1..MaxSubs

\* the store: clock values and the number of appends
MaxTime == 1
MaxAppends == 2

Times == 0..MaxTime

\* retention windows (in clock units) the process may be configured with
RetentionChoices == {0, 1}

\* the retention loop: the number of ticks
MaxTicks == 2

\* the queries: the number of snapshots stored with no correction, and
\* the number of administrative corrections
MaxSnapshots == 3
MaxCorrections == 1

\* the board asset API: the number of uploads
MaxAssets == 2

\* the broadcaster calls made by concurrent tasks
MaxCalls == 5

\* the ingestion requests that may be in flight at once (threadpool workers)
Writers == {"w1"}

VARIABLES
    queues,     \* StatusBroadcaster._queues: the registered queues
    created,    \* every queue connect() has returned so far
    slot,       \* the content of each asyncio.Queue, oldest first
    received,   \* history: what each queue's holder has read, in order
    audience,   \* history: audience[n] = the registered set when snapshot n was published
    laggards,   \* history: queues that had an unread item when a publish arrived
    unread,     \* history: publishes addressed to a queue since its holder last read
    lastOp,     \* history: the broadcaster call that ran last, and its outcome
    fkEnforced, \* whether the configured engine enforces ON DELETE CASCADE
    retention,  \* retention_days, read once in create_app
    now,        \* the clock (datetime.now(timezone.utc))
    statusRows, \* committed rows of status_history
    tempRows,   \* committed rows of temperature_history
    jobRows,    \* committed rows of job_history
    nextId,     \* the sequences of the three tables, and the count of the appends
    ingest,     \* per worker: the record_status_snapshot call in flight
    purge,      \* the _cleanup_loop task and its purge_history_before call
    attempts,   \* history: the appends that reached flush with the ids they were
                \* given, until one of these ids is given out again
    removed,    \* history: ids of the snapshots a delete or a purge has removed,
                \* until the id is given out again
    admin,      \* the administrative repository call that ran last, and what it returned
    loop,       \* the _cleanup_loop task, its worker thread and the shutdown handler
    request,    \* the get_printer_status requests in flight, and what they published
    stream,     \* the status_stream handlers, one per websocket client
    assets,     \* the board_assets table and the last response of its API
    locking,    \* StatusBroadcaster._lock and the tasks that contend for it
    config      \* the retention settings read from the environment

bvars == <<queues, created, slot, received, audience, laggards, unread, lastOp>>

svars == <<fkEnforced, retention, now, statusRows, tempRows, jobRows, nextId,
           ingest, purge, attempts, removed>>

\* what the callers around the store and the broadcaster keep
\* what the board asset API, the lock and the configuration keep
yvars == <<assets, locking, config>>

xvars == <<admin, loop, request, stream, yvars>>

vars == <<bvars, svars, xvars>>

NoOp == [op |-> "none", q |-> 0, raised |-> FALSE, member |-> FALSE, item |-> 0, k |-> 0]

\* ------------------------------------------------------- asyncio.Queue

\* Queue.get(): the oldest item and the remaining content (the caller is
\* suspended while the queue is empty)
QueueGetPeek(content) == [item |-> Head(content), content |-> content]

QueueGet(content) == [item |-> Head(content), content |-> Tail(content)]

\* The body of publish's for loop for one queue:
\*   put_nowait; on QueueFull: get_nowait (QueueEmpty ignored), put_nowait.
\* raised = the second put_nowait raised QueueFull out of publish.
DeliverUnbounded(content, status) ==
    [content |-> Append(content, status), raised |-> FALSE]

DeliverKeepOldest(content, status) ==
    IF Len(content) < QueueMaxSize
    THEN [content |-> Append(content, status), raised |-> FALSE]
    ELSE [content |-> content, raised |-> FALSE]

DeliverNoEvict(content, status) ==
    IF Len(content) < QueueMaxSize
    THEN [content |-> Append(content, status), raised |-> FALSE]
    ELSE [content |-> content, raised |-> TRUE]

Deliver(content, status) ==
    IF Len(content) < QueueMaxSize
    THEN [content |-> Append(content, status), raised |-> FALSE]
    ELSE LET afterGet == IF content # <<>> THEN Tail(content) ELSE content
         IN  IF Len(afterGet) < QueueMaxSize
             THEN [content |-> Append(afterGet, status), raised |-> FALSE]
             ELSE [content |-> afterGet, raised |-> TRUE]

\* ---------------------------------------------------- StatusBroadcaster

\* queues = list(self._queues), taken under the lock
RecipientsEverCreated == created

Recipients == queues

\* self._queues.discard(queue)
RemoveStrict(set, q) == [set |-> set \ {q}, raised |-> q \notin set]

Discard(set, q) == [set |-> set \ {q}, raised |-> FALSE]

BInit ==
    /\ queues = {}
    /\ created = {}
    /\ slot = [q \in Subs |-> <<>>]
    /\ received = [q \in Subs |-> <<>>]
    /\ audience = <<>>
    /\ laggards = {}
    /\ unread = [q \in Subs |-> 0]
    /\ lastOp = NoOp

\* connect(): a fresh queue of capacity 1, added to the set
BroadcasterConnect ==
    /\ Cardinality(created) < MaxSubs
    /\ LET q == Cardinality(created) + 1
       IN  /\ created' = created \cup {q}
           /\ queues' = queues \cup {q}
           /\ slot' = [slot EXCEPT ![q] = <<>>]
           /\ lastOp' = [NoOp EXCEPT !.op = "connect", !.q = q]
    /\ UNCHANGED <<received, audience, laggards, unread>>

\* a connect by a caller that is not modelled further
Connect ==
    /\ BroadcasterConnect
    /\ UNCHANGED svars
    /\ UNCHANGED xvars

\* disconnect(queue), for any queue a caller holds, registered or not
BroadcasterDisconnect(q) ==
    /\ q \in created
    /\ LET r == Discard(queues, q)
       IN  /\ queues' = r.set
           /\ lastOp' = [NoOp EXCEPT !.op = "disconnect", !.q = q,
                                     !.raised = r.raised, !.member = (q \in queues)]
    /\ UNCHANGED <<created, slot, received, audience, laggards, unread>>

\* a disconnect by a caller that is not modelled further
Disconnect(q) ==
    /\ BroadcasterDisconnect(q)
    /\ UNCHANGED svars
    /\ UNCHANGED xvars

\* publish(status): snapshot number Len(audience)+1 goes to every queue of
\* the copied set.  The loop stops at the first queue whose delivery raises;
\* the set's iteration order is arbitrary, so any subset of the queues that
\* do not raise may have been served before it.
PublishTo(targets) ==
    /\ Len(audience) < MaxPublish
    /\ LET s == Len(audience) + 1
           raisers == {q \in targets : Deliver(slot[q], s).raised}
       IN  /\ IF raisers = {}
              THEN /\ slot' = [q \in Subs |-> IF q \in targets
                                              THEN Deliver(slot[q], s).content
                                              ELSE slot[q]]
                   /\ lastOp' = [NoOp EXCEPT !.op = "publish", !.item = s,
                                   !.member = (\E q \in targets : slot[q] # <<>>)]
              ELSE \E r \in raisers : \E before \in SUBSET (targets \ raisers) :
                   /\ slot' = [q \in Subs |-> IF q \in before \cup {r}
                                              THEN Deliver(slot[q], s).content
                                              ELSE slot[q]]
                   /\ lastOp' = [NoOp EXCEPT !.op = "publish", !.item = s,
                                             !.raised = TRUE, !.q = r]
           /\ audience' = Append(audience, queues)
           /\ laggards' = laggards \cup {q \in queues : slot[q] # <<>>}
           /\ unread' = [q \in Subs |-> IF q \in queues THEN unread[q] + 1 ELSE unread[q]]
    /\ UNCHANGED <<queues, created, received>>

\* publish(status) run in one piece: the copy and the loop over it
PublishStatus == PublishTo(Recipients)

\* a publish with the store left alone
Publish ==
    /\ PublishStatus
    /\ UNCHANGED svars
    /\ UNCHANGED xvars

\* connection_count: len(self._queues)
ConnectionCount == Cardinality(queues)

\* reset(): self._queues.clear()
BroadcasterResetKeepsQueues ==
    /\ queues' = queues
    /\ lastOp' = [NoOp EXCEPT !.op = "reset"]
    /\ UNCHANGED <<created, slot, received, audience, laggards, unread>>

BroadcasterReset ==
    /\ queues' = {}
    /\ lastOp' = [NoOp EXCEPT !.op = "reset"]
    /\ UNCHANGED <<created, slot, received, audience, laggards, unread>>

\* a reset of a broadcaster that has listeners
Reset ==
    /\ queues # {}
    /\ BroadcasterReset
    /\ UNCHANGED svars
    /\ UNCHANGED xvars

\* status = await queue.get() in status_stream
QueueRead(q) ==
    /\ q \in created
    /\ slot[q] # <<>>
    /\ LET r == QueueGet(slot[q])
       IN  /\ slot' = [slot EXCEPT ![q] = r.content]
           /\ received' = [received EXCEPT ![q] = Append(@, r.item)]
           /\ lastOp' = [NoOp EXCEPT !.op = "read", !.q = q, !.item = r.item,
                                     !.k = unread[q]]
    /\ unread' = [unread EXCEPT ![q] = 0]
    /\ UNCHANGED <<queues, created, audience, laggards>>

\* a read by a holder that is not modelled further
Read(q) ==
    /\ QueueRead(q)
    /\ UNCHANGED svars
    /\ UNCHANGED xvars

BNext ==
    \/ Connect
    \/ \E q \in Subs : Disconnect(q)
    \/ Publish
    \/ Reset
    \/ \E q \in Subs : Read(q)

\* ------------------------------------------------------ status history
\*
\* The three tables hold the committed rows, which is what any other session
\* reads.  record_status_snapshot and purge_history_before each run in a
\* worker thread inside one session_scope transaction, so their statements
\* interleave with each other and with the clock; any statement or commit may
\* raise (a locked or unreachable database), which rolls the transaction back.
\* Rows a transaction has deleted but not committed are locked against other
\* writers.  The engine is built from DATABASE_URL: the default SQLite engine
\* is created without enabling foreign keys, so ON DELETE CASCADE is not
\* enforced there, while other backends enforce it (fkEnforced).

\* Optional values are <<>> (None) or <<v>>.  Progress is counted in tenths.
\* JobSummary(id, progress, status)
Job(id, progress, status) == [id |-> id, progress |-> progress, status |-> status]

\* TemperatureReading(component, actual, timestamp)
Reading(component, actual, timestamp) ==
    [component |-> component, actual |-> actual, timestamp |-> timestamp]

\* PrinterStatus with no job and no reading
IdleStatus ==
    [state |-> "idle", message |-> <<>>, uptime_seconds |-> <<>>,
     active_job |-> <<>>, queued_jobs |-> <<>>, temperatures |-> <<>>]

\* PrinterStatus with an active job, queued jobs and readings
PrintingStatus(active, queued, temperatures) ==
    [state |-> "printing", message |-> <<"All good">>, uptime_seconds |-> <<3600>>,
     active_job |-> <<active>>, queued_jobs |-> queued, temperatures |-> temperatures]

\* What an ingestion request supplies: a PrinterStatus, idle or printing
\* with one reading, an active job and one queued job.
Shapes ==
    { IdleStatus,
      PrintingStatus(Job("job-1", 4, "running"), <<Job("job-2", 0, "queued")>>,
                     <<Reading("hotend", 210, 0)>>) }

IdleIngest == [pc |-> "idle", status |-> {}, temps |-> {}, jobs |-> {}]

\* result: <<>> while nothing was returned, <<n>> once the purge returned n.
\* History: older and boundary are the snapshots that were stored with
\* recorded_at before, and exactly at, the cutoff when the DELETE ran; mid are
\* the snapshots committed while the purge was in flight.
IdlePurge == [pc |-> "tick", cutoff |-> 0, del |-> {}, delTemps |-> {}, delJobs |-> {},
              count |-> 0, result |-> <<>>, raised |-> FALSE,
              older |-> {}, boundary |-> {}, mid |-> {}]

\* result: <<>> for None, <<v>> for a returned value
\* calls counts the calls made so far where their number is bounded, and
\* tells one call from the next (0, 1, 0, ...) where it is not
NoCall == [op |-> "none", id |-> 0, fields |-> <<>>, raised |-> FALSE,
           result |-> <<>>, calls |-> 0]

\* task: where the _cleanup_loop task stands ("start": created and not yet
\* run, "awaiting": suspended in asyncio.to_thread, "sleeping": suspended in
\* asyncio.sleep, "cancelled": ended by CancelledError, "crashed": ended by
\* another exception); cancel: task.cancel() was called and the task has not
\* run since; shutdown: the _shutdown_cleanup_task handler ("idle",
\* "awaiting" the task after task.cancel(), "returned").
\* History: ticks counts the ticks, fails the failed ticks in a row.
IdleLoop == [task |-> "start", cancel |-> FALSE, shutdown |-> "idle",
             ticks |-> 0, fails |-> 0]

\* a get_printer_status handler: "idle", or "recording" while it awaits
\* run_in_threadpool(record_status_snapshot, status); status is the id the
\* snapshot was given.  History: request.published[n] is the id of the
\* snapshot that was the n-th to be published.
IdleRequest == [pc |-> "idle", status |-> 0]

\* a status_stream handler: "none" before the client connects, "waiting"
\* while suspended in `await queue.get()`, "sending" while it holds a status
\* at `await websocket.send_json(payload)`, "closed" once its finally block
\* ran; queue is the queue connect() returned; client tells whether the
\* peer still holds the connection ("open") or dropped it ("dropped").
\* History: before is the connection count when the client connected.
NoStream == [pc |-> "none", queue |-> 0, client |-> "open", before |-> 0]

\* rows: the board_assets rows (id, moderation_status); response: what the
\* last call of the board asset API answered (code 0: no call yet; assets:
\* the rows of the response body), with the status filter and the headers
\* X-Board-Assets-Key and X-Board-Assets-Moderator it was given
NoResponse == [endpoint |-> "none", code |-> 0, assets |-> {}, filter |-> <<>>,
               key |-> <<>>, moderator |-> <<>>]

NoAssets == [rows |-> {}, response |-> NoResponse]

\* the tasks that call the broadcaster at once
Tasks == {"t1", "t2"}

\* a task: the broadcaster call it runs (op, with the queue q a disconnect
\* is given), where it stands ("idle": no call; "acquire": at `async with
\* self._lock`; "locked": inside the block; "deliver": publish's loop, after
\* the block) and, in a publish, the list copied inside the block
IdleTask == [op |-> "none", q |-> 0, pc |-> "idle", copy |-> {}]

\* holder: the task inside an `async with self._lock` block (<<>>: free);
\* task: the broadcaster calls in progress.  History: calls counts the calls.
NoTasks == [holder |-> <<>>, task |-> [t \in Tasks |-> IdleTask], calls |-> 0]

\* ------------------------------------------------- configuration
\*
\* create_app reads STATUS_HISTORY_RETENTION_DAYS and
\* STATUS_HISTORY_CLEANUP_INTERVAL_SECONDS once.  An environment value is a
\* text, here the sequence of its characters; <<>> stands for an unset
\* variable and <<text>> for a set one.

Digits == <<"0", "1", "2", "3", "4", "5", "6", "7", "8", "9">>

DigitValue(c) == (CHOOSE i \in 1..Len(Digits) : Digits[i] = c) - 1

RECURSIVE ParseDigits(_, _)
ParseDigits(text, acc) ==
    IF text = <<>> THEN acc
    ELSE ParseDigits(Tail(text), acc * Len(Digits) + DigitValue(Head(text)))

\* int(text) for a decimal numeral with an optional minus sign
ParseInt(text) ==
    IF Head(text) = "-" THEN 0 - ParseDigits(Tail(text), 0) ELSE ParseDigits(text, 0)

\* os.getenv(name, default)
Getenv(value, default) == IF value = <<>> THEN default ELSE value[1]

DefaultRetentionDays == <<"3", "0">>

DefaultCleanupInterval == <<"3", "6", "0", "0">>

MinRetentionDays == 0

MinCleanupInterval == 60

\* retention_days = max(0, int(os.getenv("STATUS_HISTORY_RETENTION_DAYS", "30")))
RetentionDaysUnclamped(days) == ParseInt(Getenv(days, DefaultRetentionDays))

RetentionDays(days) ==
    LET configured == ParseInt(Getenv(days, DefaultRetentionDays))
    IN  IF configured > MinRetentionDays THEN configured ELSE MinRetentionDays

\* cleanup_interval = max(60, int(os.getenv("STATUS_HISTORY_CLEANUP_INTERVAL_SECONDS", "3600")))
CleanupInterval(seconds) ==
    LET configured == ParseInt(Getenv(seconds, DefaultCleanupInterval))
    IN  IF configured > MinCleanupInterval THEN configured ELSE MinCleanupInterval

\* the environment (days, seconds) and the cleanup interval derived from it
Configured(days, seconds) ==
    [days |-> days, seconds |-> seconds, cleanup_interval |-> CleanupInterval(seconds)]

Ids(rows) == {r.id : r \in rows}

\* create_status_history: the StatusHistory row of a PrinterStatus, with the
\* active job's fields copied into the active_job_* columns (name, started_at
\* and estimated_completion are carried like id and status and left out)
BuildStatusEntity(status, id, timestamp) ==
    LET active == status.active_job
    IN  [id |-> id, recorded_at |-> timestamp, state |-> status.state,
         message |-> status.message, uptime_seconds |-> status.uptime_seconds,
         active_job_id |-> IF active # <<>> THEN <<active[1].id>> ELSE <<>>,
         active_job_progress |-> IF active # <<>> THEN <<active[1].progress>> ELSE <<>>,
         active_job_status |-> IF active # <<>> THEN <<active[1].status>> ELSE <<>>]

\* _build_temperature_entities: one row per reading, in the order given
BuildTemperatureEntities(shape, statusId, firstId) ==
    {[id |-> firstId + i - 1, status_id |-> statusId,
      component |-> shape.temperatures[i].component,
      actual |-> shape.temperatures[i].actual,
      timestamp |-> shape.temperatures[i].timestamp] :
        i \in 1..Len(shape.temperatures)}

\* _build_job_entities: the active job first (is_active), then the queued ones
BuildJobEntities(shape, statusId, firstId) ==
    LET jobs == shape.active_job \o shape.queued_jobs
    IN  {[id |-> firstId + i - 1, status_id |-> statusId,
          job_identifier |-> jobs[i].id, progress |-> jobs[i].progress,
          status_value |-> jobs[i].status,
          is_active |-> (i <= Len(shape.active_job))] :
            i \in 1..Len(jobs)}

\* session.flush() under sessionmaker(autocommit=False): the rows are
\* written inside the session's transaction, not yet visible to others
SessionFlushAutocommit(committed, pending, rows) ==
    [committed |-> committed \cup rows, pending |-> pending]

SessionFlush(committed, pending, rows) ==
    [committed |-> committed, pending |-> pending \cup rows]

\* session_scope: session.commit() makes the transaction's rows visible
SessionCommit(committed, pending) == committed \cup pending

\* session_scope: on an exception session.rollback() drops them
SessionRollbackKeeps(committed, pending) == committed \cup pending

SessionRollback(committed, pending) == committed

\* delete(StatusHistory).where(StatusHistory.recorded_at < before)
DeleteMatchesInclusive(rows, before) == {r \in rows : r.recorded_at <= before}

DeleteMatches(rows, before) == {r \in rows : r.recorded_at < before}

\* the value purge_history_before compares against: the argument it was
\* called with, computed once per tick in _cleanup_loop
PurgeBeforeReevaluated(p) == now - retention

PurgeBefore(p) == p.cutoff

\* Child rows that go with deleted parents.  A bulk DELETE removes children
\* only through the database's ON DELETE CASCADE; session.delete(entry) with
\* passive_deletes=True also deletes the children already loaded in the
\* session, and leaves the others to the database.
CascadedChildren(children, parentIds, loaded) ==
    {c \in children : c.status_id \in parentIds /\ (fkEnforced \/ loaded)}

\* update_status_history: the columns setattr may touch
MutableFields ==
    {"state", "message", "uptime_seconds", "recorded_at", "active_job_id",
     "active_job_name", "active_job_progress", "active_job_status",
     "active_job_started_at", "active_job_estimated_completion"}

\* the keyword arguments an administrative caller may pass
UpdateInputs ==
    { [k \in {"recorded_at"} |-> 0],
      [k \in {"id"} |-> 7] }

ApplyFieldsUnfiltered(row, fields) ==
    [c \in DOMAIN row |-> IF c \in DOMAIN fields THEN fields[c] ELSE row[c]]

ApplyFields(row, fields) ==
    [c \in DOMAIN row |->
        IF c \in DOMAIN fields /\ c \in MutableFields THEN fields[c] ELSE row[c]]

\* get_status_history: session.get(StatusHistory, id), None when absent
GetStatusHistory(rows, id) ==
    IF \E r \in rows : r.id = id
    THEN <<CHOOSE r \in rows : r.id = id>>
    ELSE <<>>

\* rows a purge has deleted inside its open transaction: locked until it ends
PurgeLocked == IF purge.pc = "executed" THEN purge.del ELSE {}

\* the rows of each table an inserting session finds: the committed ones and
\* those other sessions have written or are about to write
StatusTable == statusRows \cup UNION {ingest[w].status : w \in DOMAIN ingest}

TemperatureTable == tempRows \cup UNION {ingest[w].temps : w \in DOMAIN ingest}

JobTable == jobRows \cup UNION {ingest[w].jobs : w \in DOMAIN ingest}

LargestId(rows) ==
    IF rows = {} THEN 0 ELSE CHOOSE m \in Ids(rows) : \A i \in Ids(rows) : i <= m

\* the id an INSERT gives a row whose id column (Integer, primary_key=True,
\* autoincrement=True) is left unset.  An engine with sequences takes the
\* next value of the table's sequence.  The default SQLite engine declares
\* the column INTEGER PRIMARY KEY without the AUTOINCREMENT keyword, and
\* takes one more than the largest id in the table: the id of a row that
\* was deleted or rolled back is given out again.
Rowid(rows, counter) == IF fkEnforced THEN counter ELSE LargestId(rows) + 1

\* the appends whose ids have not been given out again since
AttemptsApartFrom(id, temps, jobs) ==
    {a \in attempts : a.id # id /\ a.temps \cap temps = {} /\ a.jobs \cap jobs = {}}

\* the process configuration: the database backend and the retention window
SConfig ==
    /\ fkEnforced \in BOOLEAN
    /\ retention \in RetentionChoices

\* the default configuration's engine, with the shortest retention window
SDefaultConfig ==
    /\ fkEnforced = FALSE
    /\ retention = 0

SInit ==
    /\ now = 0
    /\ statusRows = {}
    /\ tempRows = {}
    /\ jobRows = {}
    /\ nextId = [status |-> 1, temp |-> 1, job |-> 1]
    /\ ingest = [w \in Writers |-> IdleIngest]
    /\ purge = IdlePurge
    /\ attempts = {}
    /\ removed = {}

\* the clock advances
Tick ==
    /\ now < MaxTime
    /\ now' = now + 1
    /\ UNCHANGED bvars
    /\ UNCHANGED xvars
    /\ UNCHANGED <<fkEnforced, retention, statusRows, tempRows, jobRows, nextId,
                   ingest, purge, attempts, removed>>

\* record_status_snapshot -> create_status_history, up to the first INSERT of
\* session.flush(): the status_history row, which is given its id.  The
\* caller passes no recorded_at (<<>>: the clock is read) or a past instant.
CreateStatusHistory(w, shape, recorded_at) ==
    /\ ingest[w].pc = "idle"
    /\ LET timestamp == IF recorded_at = <<>> THEN now ELSE recorded_at[1]
           row == BuildStatusEntity(shape, Rowid(StatusTable, nextId.status), timestamp)
           temps == BuildTemperatureEntities(shape, row.id,
                                             Rowid(TemperatureTable, nextId.temp))
           jobs == BuildJobEntities(shape, row.id, Rowid(JobTable, nextId.job))
           f == SessionFlush(statusRows, {}, {row})
       IN  /\ statusRows' = f.committed
           /\ ingest' = [ingest EXCEPT ![w] =
                           [pc |-> "flushing", status |-> f.pending,
                            temps |-> temps, jobs |-> jobs]]
           /\ nextId' = [status |-> nextId.status + 1,
                         temp |-> nextId.temp + Cardinality(temps),
                         job |-> nextId.job + Cardinality(jobs)]
           /\ attempts' = AttemptsApartFrom(row.id, Ids(temps), Ids(jobs)) \cup
                   {[id |-> row.id, temps |-> Ids(temps), jobs |-> Ids(jobs),
                     failed |-> FALSE]}
           /\ removed' = removed \ {row.id}
    /\ UNCHANGED <<fkEnforced, retention, now, tempRows, jobRows, purge>>

\* an ingestion worker starts an append
AppendFlushStatus(w) ==
    /\ nextId.status <= MaxAppends
    /\ \E shape \in Shapes : \E recorded_at \in {<<>>} \cup {<<t>> : t \in 0..now} :
            CreateStatusHistory(w, shape, recorded_at)
    /\ UNCHANGED bvars
    /\ UNCHANGED xvars

\* the rest of session.flush(): the INSERTs of the child rows
AppendFlushChildren(w) ==
    /\ ingest[w].pc = "flushing"
    /\ LET ft == SessionFlush(tempRows, {}, ingest[w].temps)
           fj == SessionFlush(jobRows, {}, ingest[w].jobs)
       IN  /\ tempRows' = ft.committed
           /\ jobRows' = fj.committed
           /\ ingest' = [ingest EXCEPT ![w] =
                            [pc |-> "flushed", status |-> ingest[w].status,
                             temps |-> ft.pending, jobs |-> fj.pending]]
    /\ UNCHANGED bvars
    /\ UNCHANGED xvars
    /\ UNCHANGED <<fkEnforced, retention, now, statusRows, nextId, purge,
                   attempts, removed>>

\* session_scope leaves the with block: session.commit()
AppendCommit(w) ==
    /\ ingest[w].pc = "flushed"
    /\ statusRows' = SessionCommit(statusRows, ingest[w].status)
    /\ tempRows' = SessionCommit(tempRows, ingest[w].temps)
    /\ jobRows' = SessionCommit(jobRows, ingest[w].jobs)
    /\ ingest' = [ingest EXCEPT ![w] = IdleIngest]
    /\ purge' = IF purge.pc \in {"running", "executed"}
                THEN [purge EXCEPT !.mid = @ \cup Ids(ingest[w].status)]
                ELSE purge
    /\ UNCHANGED bvars
    /\ UNCHANGED xvars
    /\ UNCHANGED <<fkEnforced, retention, now, nextId, attempts, removed>>

\* an INSERT or the commit raises: session_scope rolls back and re-raises
AppendFail(w) ==
    /\ ingest[w].pc \in {"flushing", "flushed"}
    /\ statusRows' = SessionRollback(statusRows, ingest[w].status)
    /\ tempRows' = SessionRollback(tempRows, IF ingest[w].pc = "flushed"
                                             THEN ingest[w].temps ELSE {})
    /\ jobRows' = SessionRollback(jobRows, IF ingest[w].pc = "flushed"
                                           THEN ingest[w].jobs ELSE {})
    /\ ingest' = [ingest EXCEPT ![w] = IdleIngest]
    /\ attempts' = {IF a.id \in Ids(ingest[w].status) THEN [a EXCEPT !.failed = TRUE] ELSE a :
                        a \in attempts}
    /\ UNCHANGED bvars
    /\ UNCHANGED xvars
    /\ UNCHANGED <<fkEnforced, retention, now, nextId, purge, removed>>

\* _cleanup_loop: the cutoff is computed anew in every pass of the loop
TickCutoffOnce == purge.cutoff

TickCutoff == now - retention

\* _cleanup_loop, when the task first runs or asyncio.sleep returns:
\* cutoff = now - retention_days, then the purge is handed to a worker thread
CleanupLoopTick ==
    /\ purge.pc \in {"tick", "sleep"}
    /\ purge' = [IdlePurge EXCEPT !.pc = "running", !.cutoff = TickCutoff]
    /\ UNCHANGED <<fkEnforced, retention, now, statusRows, tempRows, jobRows, nextId,
                   ingest, attempts, removed>>

\* a tick of the loop with no shutdown in sight
PurgeTick ==
    /\ CleanupLoopTick
    /\ UNCHANGED bvars
    /\ UNCHANGED xvars

\* delete_older_than: the bulk DELETE runs against the committed rows
PurgeExecute ==
    /\ purge.pc = "running"
    /\ LET matched == Ids(DeleteMatches(statusRows, PurgeBefore(purge)))
       IN  purge' = [purge EXCEPT !.pc = "executed", !.del = matched,
                        !.delTemps = Ids(CascadedChildren(tempRows, matched, FALSE)),
                        !.delJobs = Ids(CascadedChildren(jobRows, matched, FALSE)),
                        !.count = Cardinality(matched),
                        !.older = {r.id : r \in {x \in statusRows : x.recorded_at < purge.cutoff}},
                        !.boundary = {r.id : r \in {x \in statusRows : x.recorded_at = purge.cutoff}}]
    /\ UNCHANGED bvars
    /\ UNCHANGED xvars
    /\ UNCHANGED <<fkEnforced, retention, now, statusRows, tempRows, jobRows, nextId,
                   ingest, attempts, removed>>

\* session_scope commits the purge; purge_history_before returns the count
\* and the loop goes to sleep
PurgeCommit ==
    /\ purge.pc = "executed"
    /\ statusRows' = {r \in statusRows : r.id \notin purge.del}
    /\ tempRows' = {c \in tempRows : c.id \notin purge.delTemps}
    /\ jobRows' = {c \in jobRows : c.id \notin purge.delJobs}
    /\ removed' = removed \cup purge.del
    /\ purge' = [purge EXCEPT !.pc = "sleep", !.result = <<purge.count>>]
    /\ UNCHANGED bvars
    /\ UNCHANGED xvars
    /\ UNCHANGED <<fkEnforced, retention, now, nextId, ingest, attempts>>

\* the DELETE or the commit raises: rollback, the loop logs and sleeps
PurgeFail ==
    /\ purge.pc \in {"running", "executed"}
    /\ purge' = [IdlePurge EXCEPT !.pc = "sleep", !.cutoff = purge.cutoff,
                                  !.raised = TRUE]
    /\ UNCHANGED bvars
    /\ UNCHANGED xvars
    /\ UNCHANGED <<fkEnforced, retention, now, statusRows, tempRows, jobRows, nextId,
                   ingest, attempts, removed>>

\* delete_status_history in a transaction of its own; loaded = the caller's
\* session already holds the entry's child collections
DeleteStatusHistory(id, loaded) ==
    /\ id \notin PurgeLocked
    /\ IF GetStatusHistory(statusRows, id) = <<>>
       THEN UNCHANGED <<statusRows, tempRows, jobRows, removed>>
       ELSE /\ statusRows' = {r \in statusRows : r.id # id}
            /\ tempRows' = tempRows \ CascadedChildren(tempRows, {id}, loaded)
            /\ jobRows' = jobRows \ CascadedChildren(jobRows, {id}, loaded)
            /\ removed' = removed \cup {id}
    /\ UNCHANGED <<fkEnforced, retention, now, nextId, ingest, purge, attempts>>

\* an administrative delete whose result nobody keeps
DeleteStatus(id, loaded) ==
    /\ id \in 1..MaxAppends
    /\ DeleteStatusHistory(id, loaded)
    /\ UNCHANGED bvars
    /\ UNCHANGED xvars

\* update_status_history in a transaction of its own
UpdateStatusHistory(id, fields) ==
    /\ id \notin PurgeLocked
    /\ IF GetStatusHistory(statusRows, id) = <<>>
       THEN UNCHANGED statusRows
       ELSE statusRows' = {IF r.id = id THEN ApplyFields(r, fields) ELSE r :
                                r \in statusRows}
    /\ UNCHANGED <<fkEnforced, retention, now, tempRows, jobRows, nextId, ingest,
                   purge, attempts, removed>>

\* an administrative update whose result nobody keeps
UpdateStatus(id, fields) ==
    /\ id \in 1..MaxAppends
    /\ UpdateStatusHistory(id, fields)
    /\ UNCHANGED bvars
    /\ UNCHANGED xvars

\* record_status_snapshot run to its end: create_status_history, flush and
\* the commit of session_scope
RecordStatusSnapshotCall(shapes, max) ==
    /\ nextId.status <= max
    /\ \E shape \in shapes : \E recorded_at \in {<<>>} \cup {<<t>> : t \in 0..now} :
        LET timestamp == IF recorded_at = <<>> THEN now ELSE recorded_at[1]
            row == BuildStatusEntity(shape, Rowid(StatusTable, nextId.status), timestamp)
            temps == BuildTemperatureEntities(shape, row.id,
                                              Rowid(TemperatureTable, nextId.temp))
            jobs == BuildJobEntities(shape, row.id, Rowid(JobTable, nextId.job))
            fs == SessionFlush(statusRows, {}, {row})
            ft == SessionFlush(tempRows, {}, temps)
            fj == SessionFlush(jobRows, {}, jobs)
        IN  /\ statusRows' = SessionCommit(fs.committed, fs.pending)
            /\ tempRows' = SessionCommit(ft.committed, ft.pending)
            /\ jobRows' = SessionCommit(fj.committed, fj.pending)
            /\ nextId' = [status |-> nextId.status + 1,
                          temp |-> nextId.temp + Cardinality(temps),
                          job |-> nextId.job + Cardinality(jobs)]
            /\ attempts' = AttemptsApartFrom(row.id, Ids(temps), Ids(jobs)) \cup
                    {[id |-> row.id, temps |-> Ids(temps), jobs |-> Ids(jobs),
                      failed |-> FALSE]}
            /\ removed' = removed \ {row.id}
            /\ purge' = IF purge.pc \in {"running", "executed"}
                        THEN [purge EXCEPT !.mid = @ \cup {row.id}]
                        ELSE purge
    /\ UNCHANGED <<fkEnforced, retention, now, ingest>>

\* a snapshot recorded by a caller that is not modelled further
RecordStatusSnapshot(shapes, max) ==
    /\ RecordStatusSnapshotCall(shapes, max)
    /\ UNCHANGED bvars
    /\ UNCHANGED xvars

SNext ==
    \/ Tick
    \/ \E w \in Writers : AppendFlushStatus(w)
    \/ \E w \in Writers : AppendFlushChildren(w)
    \/ \E w \in Writers : AppendCommit(w)
    \/ \E w \in Writers : AppendFail(w)
    \/ PurgeTick
    \/ PurgeExecute
    \/ PurgeCommit
    \/ PurgeFail
    \/ \E id \in Ids(statusRows) : \E loaded \in BOOLEAN :
            DeleteStatus(id, loaded)
    \/ \E id \in Ids(statusRows) : \E fields \in UpdateInputs :
            UpdateStatus(id, fields)

\* no administrative call yet, the loop task created, no client connected,
\* no asset uploaded, the lock free
CallersInit ==
    /\ admin = NoCall
    /\ loop = IdleLoop
    /\ stream = [c \in Subs |-> NoStream]
    /\ assets = NoAssets
    /\ locking = NoTasks

\* the above, no request in flight, and the environment that sets the
\* retention window and leaves the cleanup interval unset
XInit ==
    /\ CallersInit
    /\ request = [handler |-> [w \in Writers |-> IdleRequest], published |-> <<>>]
    /\ config = Configured(<<<<Digits[retention + 1]>>>>, <<>>)

Init == BInit /\ SConfig /\ SInit /\ XInit

\* the broadcaster alone: the store is configured and left idle
BroadcastInit == BInit /\ SDefaultConfig /\ SInit /\ XInit

BroadcastSpec == BroadcastInit /\ [][BNext]_vars

\* the store, the ingestion workers and the purge loop, with no listener
StoreSpec == Init /\ [][SNext]_vars

\* ------------------------------------------------- retention loop
\*
\* _cleanup_loop is one task on the event loop; purge_history_before runs in
\* a worker thread (asyncio.to_thread), whose steps are PurgeExecute,
\* PurgeCommit and PurgeFail: purge.pc = "sleep" now says that the call has
\* ended, and the task learns of it when the event loop resumes it.  A worker
\* thread that has started cannot be cancelled: cancelling the task cancels
\* the future the task awaits, never the function running in the thread; a
\* call still queued in the executor is dropped.

\* `except Exception` around the await: asyncio.CancelledError derives from
\* BaseException, every database error from Exception
CatchesNothing(exc) == FALSE

CatchesAll(exc) == TRUE

Catches(exc) == exc = "Exception"

CancelRequested == loop.shutdown # "idle"

\* the task runs from its start, or from the end of asyncio.sleep, to the
\* await of asyncio.to_thread
LoopTick ==
    /\ loop.task \in {"start", "sleeping"}
    /\ ~loop.cancel
    /\ loop.ticks < MaxTicks
    /\ CleanupLoopTick
    /\ loop' = [loop EXCEPT !.task = "awaiting", !.ticks = @ + 1]
    /\ UNCHANGED bvars
    /\ UNCHANGED <<admin, request, stream, yvars>>

\* the task is resumed with the outcome of the call: an exception is
\* handled by the except branch if it catches it, and the task goes on to
\* asyncio.sleep; otherwise the exception ends the task
TaskResume ==
    /\ loop.task = "awaiting"
    /\ ~loop.cancel
    /\ purge.pc = "sleep"
    /\ loop' = IF purge.raised
               THEN IF Catches("Exception")
                    THEN [loop EXCEPT !.task = "sleeping", !.fails = @ + 1]
                    ELSE [loop EXCEPT !.task = "crashed"]
               ELSE [loop EXCEPT !.task = "sleeping", !.fails = 0]
    /\ UNCHANGED bvars
    /\ UNCHANGED svars
    /\ UNCHANGED <<admin, request, stream, yvars>>

\* _shutdown_cleanup_task: task.cancel(), then `await task`
ShutdownCancel ==
    /\ loop.shutdown = "idle"
    /\ loop' = [loop EXCEPT !.shutdown = "awaiting",
                            !.cancel = (loop.task \in {"start", "awaiting", "sleeping"})]
    /\ UNCHANGED bvars
    /\ UNCHANGED svars
    /\ UNCHANGED <<admin, request, stream, yvars>>

\* the event loop runs the cancelled task: CancelledError is raised where
\* the task is suspended.  In asyncio.to_thread that is inside the try
\* block, and the task ends unless the except branch catches the error.
TaskCancelled ==
    /\ loop.cancel
    /\ loop' = IF loop.task = "awaiting" /\ Catches("CancelledError")
               THEN [loop EXCEPT !.task = "sleeping", !.cancel = FALSE]
               ELSE [loop EXCEPT !.task = "cancelled", !.cancel = FALSE]
    /\ UNCHANGED bvars
    /\ UNCHANGED svars
    /\ UNCHANGED <<admin, request, stream, yvars>>

\* the cancelled call had not been picked up by a worker thread: the
\* executor drops it and purge_history_before never runs
PurgeAbandon ==
    /\ CancelRequested
    /\ purge.pc = "running"
    /\ purge' = [purge EXCEPT !.pc = "abandoned"]
    /\ UNCHANGED bvars
    /\ UNCHANGED xvars
    /\ UNCHANGED <<fkEnforced, retention, now, statusRows, tempRows, jobRows, nextId,
                   ingest, attempts, removed>>

\* `await task` completes once the task has ended
ShutdownReturn ==
    /\ loop.shutdown = "awaiting"
    /\ loop.task \in {"cancelled", "crashed"}
    /\ loop' = [loop EXCEPT !.shutdown = "returned"]
    /\ UNCHANGED bvars
    /\ UNCHANGED svars
    /\ UNCHANGED <<admin, request, stream, yvars>>

LNext ==
    \/ Tick
    \/ RecordStatusSnapshot(Shapes, MaxAppends)
    \/ LoopTick
    \/ PurgeExecute
    \/ PurgeCommit
    \/ PurgeFail
    \/ PurgeAbandon
    \/ TaskResume
    \/ ShutdownCancel
    \/ TaskCancelled
    \/ ShutdownReturn

\* the default engine, with any retention window
LoopConfig ==
    /\ fkEnforced = FALSE
    /\ retention \in RetentionChoices

LoopInit == BInit /\ LoopConfig /\ SInit /\ XInit

\* the retention loop with its worker thread, the shutdown handler, and
\* appends that commit between their steps
LoopSpec == LoopInit /\ [][LNext]_vars

ShutdownNext ==
    \/ Tick
    \/ LoopTick
    \/ PurgeExecute
    \/ PurgeCommit
    \/ PurgeFail
    \/ PurgeAbandon
    \/ TaskResume
    \/ ShutdownCancel
    \/ TaskCancelled
    \/ ShutdownReturn

ShutdownInit == BInit /\ LoopConfig /\ SInit /\ XInit

\* the retention loop and the shutdown handler over a store nobody writes
\* to.  The event loop keeps running the tasks that are ready: a cancelled
\* task is resumed, and the handler awaiting a finished task returns.
ShutdownSpec ==
    /\ ShutdownInit
    /\ [][ShutdownNext]_vars
    /\ WF_vars(TaskCancelled)
    /\ WF_vars(ShutdownReturn)

\* ----------------------------------------------------- ingestion
\*
\* get_printer_status: the handler builds a PrinterStatus, awaits
\* record_status_snapshot in a threadpool worker (the steps of the append
\* are the worker's), and when that has returned awaits publish.

\* how `await run_in_threadpool(...)` ends for the handler: an exception
\* raised in the worker is raised again at the await
AwaitOutcomeSwallowed(failed) == "return"

AwaitOutcome(failed) == IF failed THEN "raise" ELSE "return"

\* the append the handler of w is waiting for has ended, and how
AppendEnded(w) ==
    /\ request.handler[w].pc = "recording"
    /\ ingest[w].pc = "idle"

AppendFailed(w) == \E a \in attempts : a.id = request.handler[w].status /\ a.failed

\* the handler starts: the worker runs create_status_history with no
\* recorded_at
RequestStart(w) ==
    /\ request.handler[w].pc = "idle"
    /\ nextId.status <= MaxAppends
    /\ \E shape \in Shapes : CreateStatusHistory(w, shape, <<>>)
    /\ request' = [request EXCEPT !.handler[w] =
                        [pc |-> "recording", status |-> Rowid(StatusTable, nextId.status)]]
    /\ UNCHANGED bvars
    /\ UNCHANGED <<admin, loop, stream, yvars>>

\* the handler is resumed after the append returned: publish(status)
RequestPublish(w) ==
    /\ AppendEnded(w)
    /\ AwaitOutcome(AppendFailed(w)) = "return"
    /\ PublishStatus
    /\ request' = [request EXCEPT !.handler[w] = IdleRequest,
                        !.published = Append(@, request.handler[w].status)]
    /\ UNCHANGED svars
    /\ UNCHANGED <<admin, loop, stream, yvars>>

\* the handler is resumed with the exception of the append: the request
\* fails before publish
RequestFail(w) ==
    /\ AppendEnded(w)
    /\ AwaitOutcome(AppendFailed(w)) = "raise"
    /\ request' = [request EXCEPT !.handler[w] = IdleRequest]
    /\ UNCHANGED svars
    /\ UNCHANGED bvars
    /\ UNCHANGED <<admin, loop, stream, yvars>>

INext ==
    \/ \E w \in Writers : RequestStart(w)
    \/ \E w \in Writers : AppendFlushChildren(w)
    \/ \E w \in Writers : AppendCommit(w)
    \/ \E w \in Writers : AppendFail(w)
    \/ \E w \in Writers : RequestPublish(w)
    \/ \E w \in Writers : RequestFail(w)
    \/ Connect
    \/ \E q \in Subs : Read(q)
    \/ \E id \in 1..MaxAppends : DeleteStatus(id, TRUE)

IngestInit == BInit /\ SDefaultConfig /\ SInit /\ XInit

\* ingestion requests, the subscribers of the broadcaster and an
\* administrator who deletes snapshots
IngestSpec == IngestInit /\ [][INext]_vars

\* ------------------------------------------- administrative calls
\*
\* get_status_history, update_status_history and delete_status_history, each
\* called in a session_scope of its own, with what the caller gets back.

\* the ids a caller may ask for: stored, deleted or never given out
AdminIds == 1..(MaxAppends + 1)

\* the keyword arguments of update_status_history: columns of the
\* mutable_fields set, and names outside it (the key, a relationship)
AdminUpdateInputs ==
    { [state |-> "error", message |-> <<"Updated">>, id |-> 7, jobs |-> {}],
      [recorded_at |-> 1] }

NextCall == [NoCall EXCEPT !.calls = 1 - admin.calls]

\* delete_status_history: False when there is no entry, True after the delete
DeleteResultAlways(entry) == TRUE

DeleteResult(entry) == entry # <<>>

AdminGet(id) ==
    /\ admin' = [NextCall EXCEPT !.op = "get", !.id = id,
                               !.result = GetStatusHistory(statusRows, id)]
    /\ UNCHANGED svars
    /\ UNCHANGED bvars
    /\ UNCHANGED <<loop, request, stream, yvars>>

\* returns None when there is no entry, the updated entry otherwise
AdminUpdate(id, fields) ==
    /\ UpdateStatusHistory(id, fields)
    /\ admin' = [NextCall EXCEPT !.op = "update", !.id = id, !.fields = fields,
                               !.result = GetStatusHistory(statusRows', id)]
    /\ UNCHANGED bvars
    /\ UNCHANGED <<loop, request, stream, yvars>>

AdminDelete(id, loaded) ==
    /\ DeleteStatusHistory(id, loaded)
    /\ admin' = [NextCall EXCEPT !.op = "delete", !.id = id,
                    !.result = <<DeleteResult(GetStatusHistory(statusRows, id))>>]
    /\ UNCHANGED bvars
    /\ UNCHANGED <<loop, request, stream, yvars>>

\* the database fails under any of the three calls: the exception leaves
\* session_scope after the rollback and reaches the caller
AdminFail(op, id) ==
    /\ admin' = [NextCall EXCEPT !.op = op, !.id = id, !.raised = TRUE]
    /\ UNCHANGED svars
    /\ UNCHANGED bvars
    /\ UNCHANGED <<loop, request, stream, yvars>>

ANext ==
    \/ RecordStatusSnapshot(Shapes, MaxAppends)
    \/ \E id \in AdminIds : AdminGet(id)
    \/ \E id \in AdminIds : \E fields \in AdminUpdateInputs : AdminUpdate(id, fields)
    \/ \E id \in AdminIds : \E loaded \in BOOLEAN : AdminDelete(id, loaded)
    \/ \E op \in {"get", "update", "delete"} : \E id \in AdminIds : AdminFail(op, id)

AdminInit == BInit /\ SDefaultConfig /\ SInit /\ XInit

\* appends and administrative calls, one after the other, at one instant
AdminSpec == AdminInit /\ [][ANext]_vars

\* ----------------------------------------------------- queries
\*
\* list_status_history and the dashboard metrics are SELECTs over the
\* committed rows: functions of the three tables.

\* ORDER BY recorded_at DESC, id DESC: a comes before b
OrderedBeforeOldestIdFirst(a, b) ==
    \/ a.recorded_at > b.recorded_at
    \/ a.recorded_at = b.recorded_at /\ a.id < b.id

OrderedBefore(a, b) ==
    \/ a.recorded_at > b.recorded_at
    \/ a.recorded_at = b.recorded_at /\ a.id > b.id

RECURSIVE OrderByRecordedAtDesc(_)
OrderByRecordedAtDesc(rows) ==
    IF rows = {} THEN <<>>
    ELSE LET first == CHOOSE r \in rows : \A o \in rows \ {r} : OrderedBefore(r, o)
         IN  <<first>> \o OrderByRecordedAtDesc(rows \ {first})

\* OFFSET n: the result without its first n rows
Offset(seq, n) == IF n >= Len(seq) THEN <<>> ELSE SubSeq(seq, n + 1, Len(seq))

\* LIMIT n: the first n rows of the result
Limit(seq, n) == IF n >= Len(seq) THEN seq ELSE SubSeq(seq, 1, n)

\* list_status_history(session, limit, offset)
ListStatusHistory(limit, offset) ==
    Limit(Offset(OrderByRecordedAtDesc(statusRows), offset), limit)

\* get_dashboard_overview: progress_points = max(1, min(progress_points, 200))
ProgressPointsMin == 1
ProgressPointsMax == 200

ClampProgressPoints(n) ==
    IF n > ProgressPointsMax THEN ProgressPointsMax
    ELSE IF n < ProgressPointsMin THEN ProgressPointsMin
    ELSE n

\* what the /overview endpoint lets through (Query(ge=1, le=200)), as far as
\* the number of stored snapshots can tell the values apart
ProgressPointsInputs == ProgressPointsMin..(MaxSnapshots + 1)

\* _to_isoformat: None stays None; a datetime is rendered with its UTC
\* offset (a naive one, as SQLite returns it, is taken to be UTC)
ToIsoformat(value) == IF value = <<>> THEN <<>> ELSE [utc |-> value[1]]

\* reversed(rows)
ReversedNot(seq) == seq

Reversed(seq) == [i \in 1..Len(seq) |-> seq[Len(seq) + 1 - i]]

\* the first query of get_dashboard_overview: the newest snapshot, if any
LatestStatus == Limit(OrderByRecordedAtDesc(statusRows), 1)

\* latest.jobs, loaded by selectinload: the job_history rows of that snapshot
LatestJobsOfAnySnapshot(latest) == jobRows

LatestJobs(latest) == {j \in jobRows : j.status_id = latest.id}

\* _map_job
MapJob(job) ==
    [job_identifier |-> job.job_identifier, progress |-> <<job.progress>>,
     status |-> <<job.status_value>>, is_active |-> job.is_active]

\* `elif latest.active_job_id:` is a truth test: None and "" both fail it
Truthy(optional) == optional # <<>> /\ optional[1] # ""

\* the active_job entry of the overview (<<>> for None)
OverviewActiveJob(latest) ==
    LET active == {j \in LatestJobs(latest) : j.is_active}
    IN  IF active # {}
        THEN <<MapJob(CHOOSE j \in active : \A o \in active : j.id <= o.id)>>
        ELSE IF Truthy(latest.active_job_id)
        THEN <<[job_identifier |-> latest.active_job_id[1],
                progress |-> latest.active_job_progress,
                status |-> latest.active_job_status,
                is_active |-> TRUE]>>
        ELSE <<>>

\* the second query: (recorded_at, active_job_progress) of the snapshots
\* with a progress, newest first, at most progress_points of them; the
\* series is that result reversed
OverviewProgress(progress_points) ==
    LET rows == {r \in statusRows : r.active_job_progress # <<>>}
        newest == Limit(OrderByRecordedAtDesc(rows), ClampProgressPoints(progress_points))
        pairs == [i \in 1..Len(newest) |->
                    [recorded_at |-> ToIsoformat(<<newest[i].recorded_at>>),
                     progress |-> newest[i].active_job_progress[1]]]
    IN  Reversed(pairs)

\* get_dashboard_overview(session, progress_points)
GetDashboardOverview(progress_points) ==
    IF LatestStatus = <<>>
    THEN [updated_at |-> <<>>, state |-> "unknown", message |-> <<>>,
          uptime_seconds |-> <<>>, active_job |-> <<>>, progress |-> <<>>]
    ELSE LET latest == LatestStatus[1]
         IN  [updated_at |-> ToIsoformat(<<latest.recorded_at>>),
              state |-> latest.state, message |-> latest.message,
              uptime_seconds |-> latest.uptime_seconds,
              active_job |-> OverviewActiveJob(latest),
              progress |-> OverviewProgress(progress_points)]

\* the PrinterStatus payloads stored before a query: idle, or printing job-1
\* at some progress (one of them with a queued job)
Progresses == {1, 4, 7}

QueryShapes ==
    {IdleStatus} \cup
    {PrintingStatus(Job("job-1", p, "running"),
                    IF p = 4 THEN <<Job("job-2", 0, "queued")>> ELSE <<>>, <<>>) :
        p \in Progresses}

\* the corrections an administrator makes to the active_job_* columns
CorrectionInputs ==
    { [active_job_id |-> <<>>, active_job_progress |-> <<>>, active_job_status |-> <<>>],
      [active_job_id |-> <<"job-9">>, active_job_progress |-> <<9>>,
       active_job_status |-> <<"running">>],
      [active_job_id |-> <<"">>, active_job_progress |-> <<2>>] }

\* update_status_history called on a stored snapshot
CorrectStatus(id, fields) ==
    /\ admin.calls < MaxCorrections
    /\ id \in Ids(statusRows)
    /\ UpdateStatusHistory(id, fields)
    /\ admin' = [NoCall EXCEPT !.op = "update", !.calls = admin.calls + 1]
    /\ UNCHANGED bvars
    /\ UNCHANGED <<loop, request, stream, yvars>>

QNext ==
    \/ Tick
    \/ RecordStatusSnapshot(QueryShapes, MaxSnapshots)

QueryInit == BInit /\ SDefaultConfig /\ SInit /\ XInit

\* a store filled by appends, for the queries to read
QuerySpec == QueryInit /\ [][QNext]_vars

ONext ==
    \/ Tick
    \/ RecordStatusSnapshot(QueryShapes, MaxAppends)
    \/ \E id \in 1..MaxAppends : \E fields \in CorrectionInputs :
            CorrectStatus(id, fields)

OverviewInit == BInit /\ SDefaultConfig /\ SInit /\ XInit

\* a store filled by appends and then corrected by an administrator, for
\* the overview to read
OverviewSpec == OverviewInit /\ [][ONext]_vars

\* ------------------------------------------ concurrent ingestion
\*
\* Several get_printer_status requests at once: each handler is a task on
\* the event loop that awaits record_status_snapshot in a threadpool worker
\* and, once the event loop resumes it, publishes.  A worker commits its
\* snapshot and then hands its result to the event loop; the order in which
\* the results arrive is the order in which the handlers resume.

\* the requests that may be in flight at once
Requests == {"r1", "r2"}

\* await run_in_threadpool(record_status_snapshot, status): the worker
\* thread runs record_status_snapshot to its commit
RequestRecord(r) ==
    /\ request.handler[r].pc = "idle"
    /\ RecordStatusSnapshotCall(Shapes, MaxAppends)
    /\ request' = [request EXCEPT !.handler[r] =
                        [pc |-> "recorded", status |-> Rowid(StatusTable, nextId.status)]]
    /\ UNCHANGED bvars
    /\ UNCHANGED <<admin, loop, stream, yvars>>

\* the event loop resumes the handler, whichever handler's result arrived
\* first: await status_broadcaster.publish(status); return
RequestResume(r) ==
    /\ request.handler[r].pc = "recorded"
    /\ PublishStatus
    /\ request' = [handler |-> [request.handler EXCEPT ![r] = IdleRequest],
                   published |-> Append(request.published, request.handler[r].status)]
    /\ UNCHANGED svars
    /\ UNCHANGED <<admin, loop, stream, yvars>>

CNext ==
    \/ \E r \in Requests : RequestRecord(r)
    \/ \E r \in Requests : RequestResume(r)
    \/ Connect
    \/ \E q \in Subs : Read(q)

ConcurrentInit ==
    /\ BInit /\ SDefaultConfig /\ SInit /\ CallersInit
    /\ request = [handler |-> [r \in Requests |-> IdleRequest], published |-> <<>>]
    /\ config = Configured(<<<<Digits[retention + 1]>>>>, <<>>)

\* concurrent ingestion requests and the listeners
ConcurrentSpec == ConcurrentInit /\ [][CNext]_vars

\* ------------------------------------------------ job observations

\* the keyword arguments of an update that names the relationships
ObservationUpdateInputs ==
    { [active_job_id |-> <<"job-9">>, jobs |-> {}, temperatures |-> {}] }

ONextRows ==
    \/ Tick
    \/ RecordStatusSnapshot(Shapes, MaxAppends)
    \/ \E id \in Ids(statusRows) : \E fields \in ObservationUpdateInputs :
            UpdateStatus(id, fields)
    \/ \E id \in Ids(statusRows) : \E loaded \in BOOLEAN : DeleteStatus(id, loaded)
    \/ PurgeTick
    \/ PurgeExecute
    \/ PurgeCommit

\* either engine, with the shortest retention window
ObservationInit ==
    /\ BInit
    /\ fkEnforced \in BOOLEAN
    /\ retention = 0
    /\ SInit
    /\ XInit

\* appends, updates, deletes and purges on either engine, for the
\* observations each snapshot owns
ObservationSpec == ObservationInit /\ [][ONextRows]_vars

\* ------------------------------------------- configured retention

\* the texts the two variables may be set to, with the integers they denote
DaysTexts ==
    { <<<<"-", "1">>, 0 - 1>>, <<<<"0">>, 0>>, <<<<"1">>, 1>>, <<<<"3", "0">>, 30>> }

SecondsTexts ==
    { <<<<"-", "5">>, 0 - 5>>, <<<<"5", "9">>, 59>>, <<<<"6", "0">>, 60>>,
      <<<<"6", "1">>, 61>>, <<<<"7", "2", "0", "0">>, 7200>> }

\* create_app under any of these settings, with the default engine
ConfigInit ==
    /\ BInit
    /\ fkEnforced = FALSE
    /\ \E days \in {<<>>} \cup {<<p[1]>> : p \in DaysTexts} :
       \E seconds \in {<<>>} \cup {<<p[1]>> : p \in SecondsTexts} :
            /\ retention = RetentionDays(days)
            /\ config = Configured(days, seconds)
    /\ SInit
    /\ CallersInit
    /\ request = [handler |-> [w \in Writers |-> IdleRequest], published |-> <<>>]

GNext ==
    \/ Tick
    \/ RecordStatusSnapshot(Shapes, MaxAppends)
    \/ PurgeTick
    \/ PurgeExecute
    \/ PurgeCommit

\* the store and the retention loop under every configuration
ConfigSpec == ConfigInit /\ [][GNext]_vars

\* -------------------------------------------- broadcaster lock
\*
\* connect, disconnect, reset and publish as tasks that may be switched at
\* every `async with self._lock`.  asyncio switches there only when the
\* lock is held, so every interleaving of the program is one of these.  The
\* blocks contain no await: a block and the release that ends it are one
\* step, and so is publish's loop, whose put_nowait and get_nowait are
\* synchronous.

\* Lock.acquire proceeds when the lock is not held
LockFreeAlways(holder) == TRUE

LockFree(holder) == holder = <<>>

\* a task calls connect(), disconnect(q), reset() or publish(status)
TaskCall(t, op, q) ==
    /\ locking.task[t].pc = "idle"
    /\ locking.calls < MaxCalls
    /\ op = "disconnect" => q \in created
    /\ op # "disconnect" => q = 0
    /\ op = "connect" =>
            Cardinality(created) + Cardinality({o \in Tasks :
                locking.task[o].op = "connect" /\ locking.task[o].pc # "idle"}) < MaxSubs
    /\ op = "publish" =>
            Len(audience) + Cardinality({o \in Tasks :
                locking.task[o].op = "publish" /\ locking.task[o].pc # "idle"}) < MaxPublish
    /\ locking' = [locking EXCEPT !.calls = @ + 1,
                                   !.task[t] = [IdleTask EXCEPT !.op = op, !.q = q,
                                                                !.pc = "acquire"]]
    /\ UNCHANGED bvars
    /\ UNCHANGED svars
    /\ UNCHANGED <<admin, loop, request, stream, assets, config>>

\* async with self._lock: the task enters the block
LockAcquire(t) ==
    /\ locking.task[t].pc = "acquire"
    /\ LockFree(locking.holder)
    /\ locking' = [locking EXCEPT !.holder = <<t>>, !.task[t].pc = "locked"]
    /\ UNCHANGED bvars
    /\ UNCHANGED svars
    /\ UNCHANGED <<admin, loop, request, stream, assets, config>>

\* the block of connect, disconnect or reset, and the release
LockedChange(t) ==
    /\ locking.task[t].pc = "locked"
    /\ locking.task[t].op \in {"connect", "disconnect", "reset"}
    /\ CASE locking.task[t].op = "connect" -> BroadcasterConnect
         [] locking.task[t].op = "disconnect" -> BroadcasterDisconnect(locking.task[t].q)
         [] locking.task[t].op = "reset" -> BroadcasterReset
    /\ locking' = [locking EXCEPT
                    !.holder = IF @ = <<t>> THEN <<>> ELSE @,
                    !.task[t] = IdleTask]
    /\ UNCHANGED svars
    /\ UNCHANGED <<admin, loop, request, stream, assets, config>>

\* the block of publish: queues = list(self._queues), and the release
LockedCopy(t) ==
    /\ locking.task[t].pc = "locked"
    /\ locking.task[t].op = "publish"
    /\ locking' = [locking EXCEPT
                    !.holder = IF @ = <<t>> THEN <<>> ELSE @,
                    !.task[t].pc = "deliver",
                    !.task[t].copy = Recipients]
    /\ UNCHANGED bvars
    /\ UNCHANGED svars
    /\ UNCHANGED <<admin, loop, request, stream, assets, config>>

\* publish's loop over the copied list
PublishDeliver(t) ==
    /\ locking.task[t].pc = "deliver"
    /\ PublishTo(locking.task[t].copy)
    /\ locking' = [locking EXCEPT !.task[t] = IdleTask]
    /\ UNCHANGED svars
    /\ UNCHANGED <<admin, loop, request, stream, assets, config>>

KNext ==
    \/ \E t \in Tasks : \E op \in {"connect", "reset", "publish"} : TaskCall(t, op, 0)
    \/ \E t \in Tasks : \E q \in Subs : TaskCall(t, "disconnect", q)
    \/ \E t \in Tasks : LockAcquire(t)
    \/ \E t \in Tasks : LockedChange(t)
    \/ \E t \in Tasks : LockedCopy(t)
    \/ \E t \in Tasks : PublishDeliver(t)

LockInit == BInit /\ SDefaultConfig /\ SInit /\ XInit

\* the broadcaster under concurrent callers
LockSpec == LockInit /\ [][KNext]_vars

\* ------------------------------------------------ status stream
\*
\* status_stream is one task per websocket client.  It suspends in
\* `await queue.get()` and in `await websocket.send_json(payload)` and never
\* calls websocket.receive(): it learns that the client is gone only from a
\* send that fails, or from being cancelled by the server (at shutdown, or
\* by the test client when the test leaves its `with` block).  No await of
\* the finally block suspends (the lock is free), so an exception and the
\* disconnect that follows are one step.

\* await websocket.accept(); queue = await status_broadcaster.connect()
StreamAccept(c) ==
    /\ stream[c].pc = "none"
    /\ BroadcasterConnect
    /\ stream' = [stream EXCEPT ![c] =
                    [pc |-> "waiting", queue |-> Cardinality(created) + 1,
                     client |-> "open", before |-> Cardinality(queues)]]
    /\ UNCHANGED svars
    /\ UNCHANGED <<admin, loop, request, yvars>>

\* status = await queue.get() returns
StreamGet(c) ==
    /\ stream[c].pc = "waiting"
    /\ QueueRead(stream[c].queue)
    /\ stream' = [stream EXCEPT ![c].pc = "sending"]
    /\ UNCHANGED svars
    /\ UNCHANGED <<admin, loop, request, yvars>>

\* await websocket.send_json(payload) to a client that is there
StreamSend(c) ==
    /\ stream[c].pc = "sending"
    /\ stream[c].client = "open"
    /\ stream' = [stream EXCEPT ![c].pc = "waiting"]
    /\ UNCHANGED bvars
    /\ UNCHANGED svars
    /\ UNCHANGED <<admin, loop, request, yvars>>

\* await websocket.send_json(payload) to a client that is gone raises
\* (WebSocketDisconnect or the server's error); finally: disconnect(queue)
StreamSendFails(c) ==
    /\ stream[c].pc = "sending"
    /\ stream[c].client = "dropped"
    /\ BroadcasterDisconnect(stream[c].queue)
    /\ stream' = [stream EXCEPT ![c].pc = "closed"]
    /\ UNCHANGED svars
    /\ UNCHANGED <<admin, loop, request, yvars>>

\* the server cancels the handler task while it is suspended:
\* CancelledError; finally: disconnect(queue)
StreamCancelled(c) ==
    /\ stream[c].pc \in {"waiting", "sending"}
    /\ BroadcasterDisconnect(stream[c].queue)
    /\ stream' = [stream EXCEPT ![c].pc = "closed"]
    /\ UNCHANGED svars
    /\ UNCHANGED <<admin, loop, request, yvars>>

\* the client drops the connection; the handler is not woken
ClientDrop(c) ==
    /\ stream[c].pc \in {"waiting", "sending"}
    /\ stream[c].client = "open"
    /\ stream' = [stream EXCEPT ![c].client = "dropped"]
    /\ UNCHANGED bvars
    /\ UNCHANGED svars
    /\ UNCHANGED <<admin, loop, request, yvars>>

StreamNext ==
    \/ \E c \in Subs : StreamAccept(c)
    \/ \E c \in Subs : StreamGet(c)
    \/ \E c \in Subs : StreamSend(c)
    \/ \E c \in Subs : StreamSendFails(c)
    \/ \E c \in Subs : StreamCancelled(c)
    \/ \E c \in Subs : ClientDrop(c)
    \/ Publish

StreamInit == BInit /\ SDefaultConfig /\ SInit /\ XInit

\* the stream handlers and the publisher.  The event loop runs every handler
\* that can run; nothing obliges a status to be published, a client to drop
\* or the server to cancel a handler.
StreamSpec ==
    /\ StreamInit
    /\ [][StreamNext]_vars
    /\ \A c \in Subs : WF_vars(StreamGet(c))
    /\ \A c \in Subs : WF_vars(StreamSend(c))
    /\ \A c \in Subs : WF_vars(StreamSendFails(c))

\* -------------------------------------------------- board assets
\*
\* The board asset endpoints, each in a session of its own; every service
\* call commits before it returns.

\* BOARD_ASSET_UPLOAD_TOKEN and BOARD_ASSET_MODERATION_TOKEN as the
\* deployment sets them (<<>>: unset)
UploadToken == <<"upload-token">>

ModerationToken == <<"moderator-token">>

\* the header values a request may carry (<<>>: header absent)
HeaderValues == {<<>>, <<"upload-token">>, <<"moderator-token">>, <<"wrong">>}

ModerationStatuses == {"pending", "approved", "rejected"}

\* _require_token: TRUE when it raises 403; an unset token admits everybody
RequireTokenRaises(provided, expected) == expected # <<>> /\ provided # expected

\* list_board_assets(session, status=...): `if status:` adds the WHERE
ListBoardAssets(status) ==
    IF status # <<>> /\ status[1] # ""
    THEN {a \in assets.rows : a.moderation_status = status[1]}
    ELSE assets.rows

\* POST /api/board-assets/
UploadBoardAsset(key) ==
    /\ Cardinality(assets.rows) < MaxAssets
    /\ IF RequireTokenRaises(key, UploadToken)
       THEN assets' = [assets EXCEPT !.response =
                        [NoResponse EXCEPT !.endpoint = "upload", !.code = 403,
                                           !.key = key]]
       ELSE LET asset == [id |-> Cardinality(assets.rows) + 1,
                          moderation_status |-> "pending"]
            IN  assets' = [rows |-> assets.rows \cup {asset},
                           response |-> [NoResponse EXCEPT !.endpoint = "upload",
                                            !.code = 201, !.assets = {asset},
                                            !.key = key]]
    /\ UNCHANGED bvars
    /\ UNCHANGED svars
    /\ UNCHANGED <<admin, loop, request, stream, locking, config>>

\* PATCH /api/board-assets/{asset_id}/moderation
UpdateModeration(asset_id, status, moderator) ==
    /\ IF RequireTokenRaises(moderator, ModerationToken)
       THEN assets' = [assets EXCEPT !.response =
                        [NoResponse EXCEPT !.endpoint = "moderation", !.code = 403,
                                           !.moderator = moderator]]
       ELSE IF asset_id \notin Ids(assets.rows)
       THEN assets' = [assets EXCEPT !.response =
                        [NoResponse EXCEPT !.endpoint = "moderation", !.code = 404,
                                           !.moderator = moderator]]
       ELSE LET asset == [id |-> asset_id, moderation_status |-> status]
            IN  assets' = [rows |-> {a \in assets.rows : a.id # asset_id} \cup {asset},
                           response |-> [NoResponse EXCEPT !.endpoint = "moderation",
                                            !.code = 200, !.assets = {asset},
                                            !.moderator = moderator]]
    /\ UNCHANGED bvars
    /\ UNCHANGED svars
    /\ UNCHANGED <<admin, loop, request, stream, locking, config>>

\* GET /api/board-assets/: list_assets takes a status_filter and a session,
\* and reads no header
ListAssets(status_filter, key, moderator) ==
    /\ assets' = [assets EXCEPT !.response =
                    [endpoint |-> "list", code |-> 200,
                     assets |-> ListBoardAssets(status_filter),
                     filter |-> status_filter, key |-> key, moderator |-> moderator]]
    /\ UNCHANGED bvars
    /\ UNCHANGED svars
    /\ UNCHANGED <<admin, loop, request, stream, locking, config>>

AssetNext ==
    \/ \E key \in HeaderValues : UploadBoardAsset(key)
    \/ \E id \in 1..MaxAssets : \E status \in ModerationStatuses :
       \E moderator \in HeaderValues : UpdateModeration(id, status, moderator)
    \/ \E filter \in {<<>>} \cup {<<v>> : v \in ModerationStatuses} :
       \E key, moderator \in HeaderValues : ListAssets(filter, key, moderator)

AssetInit == BInit /\ SDefaultConfig /\ SInit /\ XInit

\* uploads, moderation decisions and listings
AssetSpec == AssetInit /\ [][AssetNext]_vars

\* ------------------------------------------- temperature summary
\*
\* get_temperature_summary reads temperature_history alone.

\* the components a payload names, in the order of their names (str order)
ComponentNames == <<"bed", "hotend">>

\* ORDER BY timestamp DESC, id DESC inside one component: a comes before b
TemperatureRankedBeforeByIdOnly(a, b) == a.id > b.id

TemperatureRankedBefore(a, b) ==
    \/ a.timestamp > b.timestamp
    \/ a.timestamp = b.timestamp /\ a.id > b.id

\* row_number() OVER (PARTITION BY component ...) = 1: one row per component
TemperatureLatestRows ==
    {r \in tempRows :
        \A o \in tempRows : o.component = r.component /\ o # r =>
            TemperatureRankedBefore(r, o)}

RECURSIVE SumActual(_)
SumActual(rows) ==
    IF rows = {} THEN 0
    ELSE LET r == CHOOSE x \in rows : TRUE
         IN  r.actual + SumActual(rows \ {r})

\* the GROUP BY component query: count(id), min, max and avg of actual (the
\* average as the pair sum, count)
TemperatureStats(component) ==
    LET rows == {r \in tempRows : r.component = component}
    IN  [samples |-> Cardinality(rows),
         min_actual |-> <<CHOOSE v \in {r.actual : r \in rows} :
                            \A r \in rows : v <= r.actual>>,
         max_actual |-> <<CHOOSE v \in {r.actual : r \in rows} :
                            \A r \in rows : v >= r.actual>>,
         avg_actual |-> <<SumActual(rows), Cardinality(rows)>>]

\* components.sort(key=component): the entries in the order of their names
RECURSIVE SortByComponent(_, _)
SortByComponent(entries, names) ==
    IF names = <<>> THEN <<>>
    ELSE LET named == {e \in entries : e.component = Head(names)}
         IN  (IF named = {} THEN <<>> ELSE <<CHOOSE e \in named : TRUE>>)
                \o SortByComponent(entries, Tail(names))

\* get_temperature_summary(session)
GetTemperatureSummary ==
    LET latest == TemperatureLatestRows
        entries == {[component |-> r.component,
                     latest |-> [actual |-> <<r.actual>>,
                                 timestamp |-> ToIsoformat(<<r.timestamp>>)],
                     statistics |-> TemperatureStats(r.component)] : r \in latest}
    IN  [updated_at |->
            IF latest = {} THEN <<>>
            ELSE ToIsoformat(<<CHOOSE t \in {r.timestamp : r \in latest} :
                                    \A r \in latest : t >= r.timestamp>>),
         components |-> SortByComponent(entries, ComponentNames)]

\* the hotend readings a payload may carry
HotendReadings ==
    {Reading("hotend", 200, 0), Reading("hotend", 205, 1), Reading("hotend", 210, 2)}

\* the payloads stored before the summary is read: no reading, one hotend
\* reading, a bed and a hotend reading, or two hotend readings of one instant
TemperatureShapes ==
    {IdleStatus}
    \cup {PrintingStatus(Job("job-1", 4, "running"), <<>>, <<h>>) : h \in HotendReadings}
    \cup {PrintingStatus(Job("job-1", 4, "running"), <<>>, <<Reading("bed", 60, 1), h>>) :
            h \in HotendReadings}
    \cup {PrintingStatus(Job("job-1", 4, "running"), <<>>,
                         <<Reading("hotend", 210, 2), Reading("hotend", 200, 2)>>)}

TNext ==
    \/ RecordStatusSnapshot(TemperatureShapes, MaxSnapshots)
    \/ \E id \in Ids(statusRows) : \E loaded \in BOOLEAN : DeleteStatus(id, loaded)

TemperatureInit == BInit /\ SDefaultConfig /\ SInit /\ XInit

\* a store filled by appends and thinned by deletes, for the temperature
\* summary to read
TemperatureSpec == TemperatureInit /\ [][TNext]_vars

\* --------------------------------------------------- job metrics
\*
\* get_job_metrics reads job_history joined with status_history.

\* get_job_metrics: limit = max(1, min(limit, 50))
JobLimitMin == 1
JobLimitMax == 50

ClampJobLimit(n) ==
    IF n > JobLimitMax THEN JobLimitMax
    ELSE IF n < JobLimitMin THEN JobLimitMin
    ELSE n

\* what the /jobs endpoint lets through (Query(ge=1, le=50)), as far as the
\* number of stored observations can tell the values apart
JobLimitInputs == JobLimitMin..(MaxAppends + 2)

\* job_history JOIN status_history ON status_history.id = job_history.status_id:
\* each observation with the recorded_at of the snapshot that owns it; an
\* observation whose snapshot is gone joins with nothing
JobsWindow ==
    {[id |-> j.id, job_identifier |-> j.job_identifier, progress |-> j.progress,
      status_value |-> j.status_value, is_active |-> j.is_active,
      recorded_at |-> s.recorded_at] :
        <<j, s>> \in {p \in jobRows \X statusRows : p[2].id = p[1].status_id}}

\* the rows with row_rank = 1: row_number() OVER (PARTITION BY job_identifier
\* ORDER BY recorded_at DESC, id DESC); OrderedBefore is that order
LatestPerIdentifierAllRows == JobsWindow

LatestPerIdentifier ==
    {w \in JobsWindow :
        \A o \in JobsWindow : o.job_identifier = w.job_identifier /\ o # w =>
            OrderedBefore(w, o)}

\* latest_jobs_stmt: those rows, newest first, at most limit of them
LatestJobsStmt(limit) ==
    Limit(OrderByRecordedAtDesc(LatestPerIdentifier), ClampJobLimit(limit))

\* totals_stmt: count(*) of the rows with row_rank = 1, GROUP BY status_value
StatusTotalsOverRawRows ==
    [v \in {w.status_value : w \in JobsWindow} |->
        Cardinality({w \in JobsWindow : w.status_value = v})]

StatusTotals ==
    [v \in {w.status_value : w \in LatestPerIdentifier} |->
        Cardinality({w \in LatestPerIdentifier : w.status_value = v})]

\* get_job_metrics(session, limit)
GetJobMetrics(limit) ==
    LET latest_jobs == LatestJobsStmt(limit)
    IN  [updated_at |->
            IF latest_jobs = <<>> THEN <<>>
            ELSE ToIsoformat(<<CHOOSE t \in {latest_jobs[i].recorded_at :
                                                i \in 1..Len(latest_jobs)} :
                                \A i \in 1..Len(latest_jobs) :
                                    t >= latest_jobs[i].recorded_at>>),
         recent |-> [i \in 1..Len(latest_jobs) |->
                        [job_identifier |-> latest_jobs[i].job_identifier,
                         progress |-> <<latest_jobs[i].progress>>,
                         status |-> latest_jobs[i].status_value,
                         is_active |-> latest_jobs[i].is_active,
                         last_seen_at |-> ToIsoformat(<<latest_jobs[i].recorded_at>>)]],
         status_totals |-> StatusTotals]

\* the payloads stored before the metrics are read: no job, job-1 running
\* with job-2 queued, job-1 completed, job-3 running, and job-1 both running
\* and queued
JobShapes ==
    { IdleStatus,
      PrintingStatus(Job("job-1", 2, "running"), <<Job("job-2", 0, "queued")>>, <<>>),
      PrintingStatus(Job("job-1", 10, "completed"), <<>>, <<>>),
      PrintingStatus(Job("job-3", 6, "running"), <<>>, <<>>),
      PrintingStatus(Job("job-1", 6, "running"), <<Job("job-1", 0, "queued")>>, <<>>) }

JNext ==
    \/ Tick
    \/ RecordStatusSnapshot(JobShapes, MaxAppends)
    \/ \E id \in Ids(statusRows) : \E loaded \in BOOLEAN : DeleteStatus(id, loaded)

JobsInit == BInit /\ SDefaultConfig /\ SInit /\ XInit

\* a store filled by appends and thinned by deletes, for the job metrics to
\* read
JobsSpec == JobsInit /\ [][JNext]_vars

\* ------------------------------------------------- broadcaster properties

\* The numbers of the snapshots published while q was registered, in order
AddressedTo(q) ==
    LET F[n \in 0..Len(audience)] ==
            IF n = 0 THEN <<>>
            ELSE IF q \in audience[n] THEN Append(F[n - 1], n) ELSE F[n - 1]
    IN  F[Len(audience)]

Last(seq) == seq[Len(seq)]

StrictlyIncreasing(seq) == \A i \in 1..(Len(seq) - 1) : seq[i] < seq[i + 1]

\* C1: in every reachable state of the broadcaster each subscription holds at
\* most one pending snapshot.
C1_AtMostOnePending == \A q \in Subs : Len(slot[q]) <= 1

\* a publish has just found an occupied slot and replaced its content
C1_Witness ==
    /\ lastOp.op = "publish"
    /\ lastOp.member
    /\ \E q \in queues : unread[q] >= 2 /\ Len(slot[q]) = 1

\* C2: a subscription that has read after every publish (it never had an
\* unread item when a publish arrived) has received, counting the item still
\* in its slot, every snapshot published while it was connected, each once,
\* in publish order, whatever the other subscriptions did.
C2_PromptReaderSeesAll ==
    \A q \in created :
        q \notin laggards => received[q] \o slot[q] = AddressedTo(q)

\* a prompt reader has read two snapshots while another subscription lagged
C2_Witness ==
    \E q \in created : \E p \in laggards :
        /\ q \notin laggards
        /\ Len(received[q]) >= 2
        /\ Len(received[p]) < Len(received[q])

\* C3: the item a lagging subscription finds is the last snapshot published
\* to it (the older ones are gone), and what one subscription reads is in
\* publish order without repetition.
C3_LaggingReaderSeesLatest ==
    /\ \A q \in created :
        /\ slot[q] # <<>> => slot[q] = <<Last(AddressedTo(q))>>
        /\ StrictlyIncreasing(received[q] \o slot[q])
    /\ lastOp.op = "read" =>
        /\ lastOp.item = Last(AddressedTo(lastOp.q))
        /\ lastOp.item = Last(received[lastOp.q])
        /\ slot[lastOp.q] = <<>>

\* a read has just followed two or more publishes with no read in between
C3_Witness == lastOp.op = "read" /\ lastOp.k >= 2 /\ lastOp.item >= 2

\* C4: publish(s) leaves s pending in every subscription registered when it
\* is called and changes no other slot; no other step puts anything into a
\* slot, and a subscription created later starts empty.
C4_PublishReachesExactlyRegistered ==
    [][ IF lastOp'.op = "publish"
        THEN \A q \in Subs :
                slot'[q] = IF q \in queues THEN <<lastOp'.item>> ELSE slot[q]
        ELSE \A q \in Subs :
                /\ slot'[q] = slot[q] \/ (slot[q] # <<>> /\ slot'[q] = Tail(slot[q]))
                /\ q \in created' \ created => slot'[q] = <<>> /\ received'[q] = <<>>
      ]_vars

\* a publish has just run with one subscription registered and another one,
\* created earlier, removed; and a subscription created after a publish
C4_Witness ==
    /\ lastOp.op = "publish"
    /\ queues # {}
    /\ created \ queues # {}
    /\ \E q \in queues : AddressedTo(q) # <<>> /\ AddressedTo(q)[1] > 1

\* C5: publish never fails on a full slot and is never blocked: no publish
\* has raised QueueFull, and publish can run in every state (up to the bound
\* on the number of snapshots).
C5_PublishNeverRaises ==
    /\ lastOp.op = "publish" => ~lastOp.raised
    /\ Len(audience) < MaxPublish => ENABLED Publish

\* a publish has just completed although a slot was occupied
C5_Witness ==
    /\ lastOp.op = "publish"
    /\ lastOp.member
    /\ ~lastOp.raised
    /\ \E q \in queues : unread[q] = 1

\* C6: disconnect removes the subscription and nothing else, raises nothing
\* even when the subscription is not registered (then the set is unchanged),
\* and a publish leaves the slot of every unregistered subscription as it was.
C6_DisconnectIdempotent ==
    [][ /\ lastOp'.op = "disconnect" =>
            /\ ~lastOp'.raised
            /\ queues' = queues \ {lastOp'.q}
            /\ lastOp'.q \notin queues => queues' = queues
            /\ slot' = slot
        /\ lastOp'.op = "publish" =>
            \A q \in created \ queues : slot'[q] = slot[q]
      ]_vars

\* disconnect has just been called for a subscription that was not registered
C6_Witness ==
    /\ lastOp.op = "disconnect"
    /\ ~lastOp.member
    /\ lastOp.q \notin queues

\* ------------------------------------------------------ store properties

PurgeInFlight == purge.pc \in {"running", "executed"}

\* C7: the purge deletes exactly the snapshots that, when its DELETE ran,
\* were stored with recorded_at strictly before the cutoff (one recorded at
\* the cutoff survives), leaves every other snapshot and its children as they
\* were, and returns the number of snapshots it deleted.
C7_PurgeDeletesExactlyOlder ==
    [][ (purge.pc = "executed" /\ purge'.pc = "sleep" /\ ~purge'.raised) =>
            LET older == purge.older
                kept == Ids(statusRows')
            IN  /\ statusRows' = {r \in statusRows : r.id \notin older}
                /\ older \subseteq Ids(statusRows)
                /\ tempRows' \subseteq tempRows
                /\ jobRows' \subseteq jobRows
                /\ \A c \in tempRows : c.status_id \in kept => c \in tempRows'
                /\ \A c \in jobRows : c.status_id \in kept => c \in jobRows'
                /\ purge'.result = <<Cardinality(older)>>
      ]_vars

\* a purge has returned 1 and left a snapshot that was recorded exactly at
\* the cutoff when the DELETE ran
C7_Witness ==
    /\ purge.pc = "sleep"
    /\ purge.result = <<1>>
    /\ purge.boundary \cap Ids(statusRows) # {}

\* C8: every stored temperature reading and job observation has an owning
\* snapshot that is still stored.
C8_NoOrphans ==
    /\ \A c \in tempRows : c.status_id \in Ids(statusRows)
    /\ \A c \in jobRows : c.status_id \in Ids(statusRows)

\* C9: a purge in flight compares against the cutoff computed at its tick and
\* nothing else, and no step of the purge removes a snapshot recorded at or
\* after that cutoff, whatever was appended while it ran.
C9_ConcurrentAppendSurvivesPurge ==
    [][ /\ (purge.pc = "tick" /\ purge'.pc = "running") =>
                purge'.cutoff = now - retention
        /\ PurgeInFlight => purge'.cutoff = purge.cutoff
        /\ (PurgeInFlight /\ purge'.pc # purge.pc) =>
                \A r \in statusRows : r.recorded_at >= purge.cutoff => r \in statusRows'
      ]_vars

\* a purge has deleted a snapshot and returned, and a snapshot recorded at or
\* after its cutoff that was committed while it ran is still stored
C9_Witness ==
    /\ purge.pc = "sleep"
    /\ purge.result # <<>>
    /\ purge.count >= 1
    /\ \E r \in statusRows : r.id \in purge.mid /\ r.recorded_at >= purge.cutoff

\* C10: of every append the committed tables hold either the snapshot with
\* all of its children or none of its rows (until the snapshot is deleted),
\* and nothing of an append that failed.
C10_AppendAllOrNothing ==
    \A a \in attempts :
        LET stored == a.id \in Ids(statusRows)
            noChildren == /\ a.temps \cap Ids(tempRows) = {}
                          /\ a.jobs \cap Ids(jobRows) = {}
        IN  /\ a.failed => ~stored /\ noChildren
            /\ a.id \notin removed =>
                    IF stored
                    THEN a.temps \subseteq Ids(tempRows) /\ a.jobs \subseteq Ids(jobRows)
                    ELSE noChildren

\* one append with children has failed, and another one has its snapshot
\* and its children flushed but not yet committed
C10_Witness ==
    /\ \E a \in attempts : a.failed /\ a.temps # {} /\ a.jobs # {}
    /\ \E w \in Writers : ingest[w].pc = "flushed" /\ ingest[w].temps # {}

\* ------------------------------------------------------ query properties

\* the number of stored snapshots that come before r in the order
\* (recorded_at descending, then id descending)
Rank(r) ==
    Cardinality({o \in statusRows :
        \/ o.recorded_at > r.recorded_at
        \/ o.recorded_at = r.recorded_at /\ o.id > r.id})

Min(a, b) == IF a < b THEN a ELSE b

Max(a, b) == IF a > b THEN a ELSE b

\* C11: for every store content, limit and offset, list(limit, offset) is
\* the snapshots at positions offset .. offset+limit-1 of the order
\* (recorded_at descending, id descending): its i-th result has exactly
\* offset+i-1 snapshots before it, consecutive results strictly decrease in
\* (recorded_at, id), and of two with equal recorded_at the higher id is
\* first.
C11_ListIsWindowOfTotalOrder ==
    \A limit \in 0..(MaxSnapshots + 1) : \A offset \in 0..(MaxSnapshots + 1) :
        LET result == ListStatusHistory(limit, offset)
            n == Cardinality(statusRows)
        IN  /\ Len(result) = Max(0, Min(limit, n - offset))
            /\ \A i \in 1..Len(result) :
                    /\ result[i] \in statusRows
                    /\ Rank(result[i]) = offset + i - 1
            /\ \A i \in 1..(Len(result) - 1) :
                    \/ result[i].recorded_at > result[i + 1].recorded_at
                    \/ /\ result[i].recorded_at = result[i + 1].recorded_at
                       /\ result[i].id > result[i + 1].id

\* three snapshots are stored, the one stored first being the newest and the
\* other two sharing a recorded_at: list(2, 1) skips the first and returns
\* the two that tie, higher id first
C11_Witness ==
    /\ Cardinality(statusRows) = 3
    /\ LET result == ListStatusHistory(2, 1)
       IN  /\ Len(result) = 2
           /\ result[1].recorded_at = result[2].recorded_at
           /\ result[1].id = 3
           /\ result[2].id = 2
           /\ \E r \in statusRows : r.id = 1 /\ r.recorded_at > result[1].recorded_at

\* ------------------------------------------- administrative properties

Row(rows, id) == CHOOSE r \in rows : r.id = id

\* the update that just ran changed nothing but columns of the set allowed,
\* each named in its fields and set to the value given there; the key, the
\* children and all other snapshots are as before
UpdateTouchedOnly(allowed) ==
    admin' # admin /\ admin'.op = "update" /\ ~admin'.raised =>
        /\ Ids(statusRows') = Ids(statusRows)
        /\ tempRows' = tempRows
        /\ jobRows' = jobRows
        /\ \A r \in statusRows : r.id # admin'.id => r \in statusRows'
        /\ admin'.id \in Ids(statusRows) =>
            LET old == Row(statusRows, admin'.id)
                new == Row(statusRows', admin'.id)
            IN  \A c \in DOMAIN old :
                    new[c] # old[c] =>
                        /\ c \in allowed
                        /\ c \in DOMAIN admin'.fields
                        /\ new[c] = admin'.fields[c]

\* C12 as stated: update changes only state, message, uptime and the
\* denormalized active-job columns named in fields; recorded_at, the id, the
\* children and the other snapshots stay as they are.
C12_UpdateTouchesOnlyDocumentedFields ==
    [][UpdateTouchedOnly({"state", "message", "uptime_seconds", "active_job_id",
                          "active_job_progress", "active_job_status"})]_vars

\* C12, amended: update changes only the columns of its mutable set named in
\* fields, and that set holds recorded_at besides state, message, uptime
\* and the denormalized active-job columns; names outside the set are
\* ignored, and the id, the children and the other snapshots stay as they are.
C12_UpdateTouchesOnlyMutableFields ==
    [][UpdateTouchedOnly({"state", "message", "uptime_seconds", "recorded_at",
                          "active_job_id", "active_job_progress",
                          "active_job_status"})]_vars

\* an update that named the key and a relationship besides state and
\* message has changed the state and the message of a snapshot that has
\* children, while another snapshot is stored
C12_Witness ==
    /\ admin.op = "update"
    /\ "id" \in DOMAIN admin.fields
    /\ admin.result # <<>>
    /\ admin.result[1].state = "error"
    /\ admin.result[1].id = admin.id
    /\ \E c \in jobRows : c.status_id = admin.id
    /\ Cardinality(statusRows) >= 2

\* C13: for an id that is not stored, get and update return None and delete
\* returns False, without raising and without changing the store; a failure
\* of the database is an exception instead; for a stored id delete returns
\* True and afterwards get(id) finds nothing.
C13_NotFoundIsAValue ==
    [][ admin' # admin =>
        LET id == admin'.id
            absent == id \notin Ids(statusRows)
        IN  /\ admin'.op \in {"get", "update", "delete"} /\ ~admin'.raised /\ absent =>
                /\ admin'.result = IF admin'.op = "delete" THEN <<FALSE>> ELSE <<>>
                /\ <<statusRows, tempRows, jobRows>>' = <<statusRows, tempRows, jobRows>>
            /\ admin'.op = "delete" /\ ~admin'.raised /\ ~absent =>
                /\ admin'.result = <<TRUE>>
                /\ GetStatusHistory(statusRows', id) = <<>>
            /\ admin'.raised =>
                /\ admin'.result = <<>>
                /\ <<statusRows, tempRows, jobRows>>' = <<statusRows, tempRows, jobRows>>
      ]_vars

\* a delete has just returned False for an id that was deleted before,
\* while another snapshot is stored
C13_Witness ==
    /\ admin.op = "delete"
    /\ admin.result = <<FALSE>>
    /\ admin.id \in removed
    /\ statusRows # {}

\* ------------------------------------------- retention loop properties

Tables == <<statusRows, tempRows, jobRows>>

\* C14: a failing purge_history_before does not end the loop.  The step in
\* which the call fails leaves the three tables as they were; the task,
\* resumed with the exception, goes to sleep without starting another call;
\* and from its sleep the next tick can run.  This holds however many ticks
\* in a row have failed before.
C14_FailedTickKeepsLoopAlive ==
    /\ [](loop.task = "sleeping" /\ ~loop.cancel /\ loop.ticks < MaxTicks
            => ENABLED LoopTick)
    /\ [][ /\ purge'.raised /\ ~purge.raised => Tables' = Tables
           /\ loop.task = "awaiting" /\ loop'.task # "awaiting" /\ purge.raised
                /\ ~loop.cancel =>
                    /\ loop'.task = "sleeping"
                    /\ loop'.fails = loop.fails + 1
                    /\ purge' = purge
                    /\ Tables' = Tables
         ]_vars

\* two ticks in a row have failed over a store that holds a snapshot old
\* enough to be purged, and the task sleeps again
C14_Witness ==
    /\ loop.fails = 2
    /\ loop.task = "sleeping"
    /\ purge.raised
    /\ \E r \in statusRows : r.recorded_at < purge.cutoff

\* C15: once the shutdown handler has returned no purge is in flight: the
\* purge_history_before call the task was waiting for has committed, has
\* been rolled back or was never started.
C15_ShutdownWaitsForPurge ==
    loop.shutdown = "returned" => purge.pc \notin {"running", "executed"}

\* C16: once the shutdown handler has called task.cancel() the task ends,
\* wherever it was suspended, and no tick starts any more.
C16_CancelEndsLoop ==
    /\ CancelRequested ~> loop.task = "cancelled"
    /\ [][CancelRequested =>
            /\ loop'.ticks = loop.ticks
            /\ purge'.pc = "running" => purge.pc = "running"]_vars

\* the task was cancelled while it waited for the purge of its second tick
\* (the worker thread is past its DELETE), and the handler has returned
C16_Witness ==
    /\ loop.task = "cancelled"
    /\ loop.shutdown = "returned"
    /\ loop.ticks = 2
    /\ purge.pc = "executed"

\* C17: the task's first step is a tick (it never sleeps before one); every
\* tick computes cutoff = now - retention and starts one purge_history_before
\* call, which deletes by that cutoff; the resumed task sleeps; and when a
\* purge commits, every snapshot left with recorded_at before its cutoff was
\* committed after the tick began.
C17_EveryTickPurgesByFreshCutoff ==
    /\ [](loop.task = "sleeping" \/ purge.pc # "tick" => loop.ticks >= 1)
    /\ [][ /\ loop'.ticks # loop.ticks =>
                /\ loop'.ticks = loop.ticks + 1
                /\ loop.task \in {"start", "sleeping"}
                /\ loop'.task = "awaiting"
                /\ purge.pc \in {"tick", "sleep"}
                /\ purge'.pc = "running"
                /\ purge'.cutoff = now - retention
           /\ purge.pc = "running" /\ purge'.pc = "executed" =>
                /\ purge'.cutoff = purge.cutoff
                /\ purge'.del = {r.id : r \in {x \in statusRows : x.recorded_at < purge.cutoff}}
           /\ loop.task = "awaiting" /\ loop'.task \notin {"awaiting", "cancelled"} =>
                loop'.task = "sleeping" /\ purge' = purge
           /\ purge.pc = "executed" /\ purge'.pc = "sleep" /\ ~purge'.raised =>
                \A r \in statusRows' : r.recorded_at < purge.cutoff => r.id \in purge.mid
         ]_vars

\* the second tick, begun after a sleep at a later instant than the first,
\* has removed a snapshot and left one that was committed meanwhile
C17_Witness ==
    /\ loop.ticks = 2
    /\ loop.task = "sleeping"
    /\ purge.cutoff = 1
    /\ purge.result # <<>>
    /\ purge.result[1] >= 1
    /\ \E r \in statusRows : r.id \in purge.mid /\ r.recorded_at < purge.cutoff

\* ------------------------------------------------- ingestion properties

\* the append that was given this id has committed
Committed(id) ==
    /\ \E a \in attempts : a.id = id /\ ~a.failed
    /\ \A w \in Writers : id \notin Ids(ingest[w].status)

PublishedIds == {request.published[n] : n \in 1..Len(request.published)}

\* C18 as stated: a snapshot is published only after its append committed,
\* a snapshot whose append failed is not published, and whenever a
\* subscriber receives a snapshot its row is in the store.
C18_DeliveredSnapshotsAreStored ==
    [][ /\ request.published' # request.published =>
                \E id \in Ids(statusRows) \cup removed :
                    /\ Committed(id)
                    /\ request.published' = Append(request.published, id)
        /\ \A w \in Writers : AppendEnded(w) /\ AppendFailed(w) =>
                request.published' = request.published
        /\ \A q \in Subs : received'[q] # received[q] =>
                request.published[Last(received'[q])] \in Ids(statusRows)
      ]_vars

\* C18, amended: a snapshot is published only after its append committed,
\* so every snapshot a subscriber receives was committed before it was
\* published (a delete may have removed it again before it is delivered);
\* a snapshot whose append failed is not published.
C18_PublishedSnapshotsWereCommitted ==
    [][ /\ request.published' # request.published =>
                \E id \in Ids(statusRows) \cup removed :
                    /\ Committed(id)
                    /\ request.published' = Append(request.published, id)
        /\ \A w \in Writers : AppendEnded(w) /\ AppendFailed(w) =>
                request.published' = request.published
        /\ \A q \in Subs : received'[q] # received[q] =>
                Last(received'[q]) \in 1..Len(request.published)
      ]_vars

\* two appends were made and one snapshot was published: the append of the
\* first request failed and nothing was published for it, the second
\* request's append committed, and a subscriber has read its snapshot
C18_Witness ==
    /\ lastOp.op = "read"
    /\ nextId.status = 3
    /\ \A w \in Writers : request.handler[w].pc = "idle"
    /\ Len(request.published) = 1
    /\ \E a \in attempts : a.id = request.published[1] /\ ~a.failed
    /\ \E q \in Subs : received[q] = <<1>>
    /\ request.published[1] \in Ids(statusRows)

\* ------------------------------------------------ overview properties

\* the snapshots that carry an active-job progress
WithProgress == {r \in statusRows : r.active_job_progress # <<>>}

\* how many of them come after r in the order (recorded_at, id)
NewerWithProgress(r) ==
    Cardinality({o \in WithProgress :
        \/ o.recorded_at > r.recorded_at
        \/ o.recorded_at = r.recorded_at /\ o.id > r.id})

\* C19: the progress series of overview(progressPoints) lists the last
\* min(progressPoints, number of snapshots with an active-job progress)
\* such snapshots in the order (recorded_at, id), oldest first, each as its
\* timestamp and its progress.
C19_ProgressSeriesIsTrailingWindow ==
    \A points \in ProgressPointsInputs :
        LET series == GetDashboardOverview(points).progress
            k == Min(points, Cardinality(WithProgress))
        IN  /\ Len(series) = k
            /\ \A i \in 1..k :
                    \E r \in WithProgress :
                        /\ NewerWithProgress(r) = k - i
                        /\ series[i] = [recorded_at |-> [utc |-> r.recorded_at],
                                        progress |-> r.active_job_progress[1]]

\* three appends with progress 1, 4 and 7 (tenths), in this order in time:
\* overview(2) gives the series 4, 7
C19_Witness ==
    /\ Cardinality(statusRows) = 3
    /\ \A r \in statusRows : r.active_job_progress = <<CHOOSE v \in Progresses :
                                    Cardinality({u \in Progresses : u < v}) = r.id - 1>>
    /\ LET series == GetDashboardOverview(2).progress
       IN  /\ Len(series) = 2
           /\ series[1].progress = 4
           /\ series[2].progress = 7

\* the snapshot that is last in the order (recorded_at, id)
IsLatest(r) ==
    /\ r \in statusRows
    /\ \A o \in statusRows \ {r} :
        \/ o.recorded_at < r.recorded_at
        \/ o.recorded_at = r.recorded_at /\ o.id < r.id

\* C20: overview reports the state, message and uptime of the one snapshot
\* that is last in (recorded_at, id); its active job is the observation of
\* that snapshot flagged is_active if there is one, else the snapshot's
\* active_job_* columns if its active_job_id is set (not empty), else none.
\* Observations of other snapshots never appear.
C20_OverviewReportsLatestSnapshot ==
    LET overview == GetDashboardOverview(ProgressPointsMin)
    IN  /\ statusRows = {} => overview.state = "unknown" /\ overview.active_job = <<>>
        /\ \A r \in statusRows : IsLatest(r) =>
            LET own == {j \in jobRows : j.status_id = r.id /\ j.is_active}
                set == r.active_job_id \notin {<<>>, <<"">>}
            IN  /\ overview.state = r.state
                /\ overview.message = r.message
                /\ overview.uptime_seconds = r.uptime_seconds
                /\ own # {} =>
                        \E j \in own : overview.active_job =
                            <<[job_identifier |-> j.job_identifier,
                               progress |-> <<j.progress>>,
                               status |-> <<j.status_value>>, is_active |-> TRUE]>>
                /\ own = {} /\ set =>
                        overview.active_job =
                            <<[job_identifier |-> r.active_job_id[1],
                               progress |-> r.active_job_progress,
                               status |-> r.active_job_status, is_active |-> TRUE]>>
                /\ own = {} /\ ~set => overview.active_job = <<>>

\* the newest snapshot is idle, with no observation of its own, and was
\* given an active_job_id by a correction, while an older snapshot has an
\* active observation: the overview shows the corrected columns
C20_Witness ==
    /\ admin.op = "update"
    /\ \E r \in statusRows :
        /\ IsLatest(r)
        /\ r.state = "idle"
        /\ r.active_job_id = <<"job-9">>
        /\ \E j \in jobRows : j.status_id # r.id /\ j.is_active
        /\ GetDashboardOverview(ProgressPointsMin).active_job # <<>>
        /\ GetDashboardOverview(ProgressPointsMin).active_job[1].job_identifier = "job-9"

\* ------------------------------------------------- metrics properties

\* the stored readings of one component
ReadingsOf(component) == {r \in tempRows : r.component = component}

\* the place of a component name in the order of names
NamePosition(name) == CHOOSE i \in 1..Len(ComponentNames) : ComponentNames[i] = name

\* C21: temperatureSummary has exactly one entry per component that has a
\* stored reading, in the order of the component names; the entry's latest
\* reading is the stored reading of that component with the greatest
\* (timestamp, id), and its sample count, minimum and maximum are those of
\* all stored readings of the component.
C21_SummaryPerComponent ==
    LET components == GetTemperatureSummary.components
    IN  /\ \A i \in 1..Len(components) : ReadingsOf(components[i].component) # {}
        /\ \A r \in tempRows :
                Cardinality({i \in 1..Len(components) :
                                components[i].component = r.component}) = 1
        /\ \A i, j \in 1..Len(components) : i < j =>
                NamePosition(components[i].component) < NamePosition(components[j].component)
        /\ \A i \in 1..Len(components) :
            LET entry == components[i]
                all == ReadingsOf(entry.component)
            IN  /\ \E r \in all :
                    /\ \A o \in all \ {r} :
                        \/ o.timestamp < r.timestamp
                        \/ o.timestamp = r.timestamp /\ o.id < r.id
                    /\ entry.latest.actual = <<r.actual>>
                    /\ entry.latest.timestamp = [utc |-> r.timestamp]
                /\ entry.statistics.samples = Cardinality(all)
                /\ \E r \in all : entry.statistics.min_actual = <<r.actual>>
                /\ \E r \in all : entry.statistics.max_actual = <<r.actual>>
                /\ \A r \in all :
                    /\ entry.statistics.min_actual[1] <= r.actual
                    /\ entry.statistics.max_actual[1] >= r.actual

\* three snapshots with the hotend at 210, 200 and 205, read at the instants
\* 2, 0 and 1 and stored in that order: latest 210, minimum 200, maximum
\* 210, three samples
C21_Witness ==
    /\ Cardinality(tempRows) = 3
    /\ \E a, b, c \in tempRows :
        /\ a.id < b.id /\ b.id < c.id
        /\ <<a.actual, a.timestamp>> = <<210, 2>>
        /\ <<b.actual, b.timestamp>> = <<200, 0>>
        /\ <<c.actual, c.timestamp>> = <<205, 1>>
    /\ LET components == GetTemperatureSummary.components
       IN  /\ Len(components) = 1
           /\ components[1].component = "hotend"
           /\ components[1].latest.actual = <<210>>
           /\ components[1].statistics.samples = 3
           /\ components[1].statistics.min_actual = <<200>>
           /\ components[1].statistics.max_actual = <<210>>

\* the observations whose snapshot is stored, and that snapshot's recorded_at
Owned == {j \in jobRows : j.status_id \in Ids(statusRows)}

OwnerRecordedAt(j) == Row(statusRows, j.status_id).recorded_at

\* observation a is later than b in (owning snapshot's recorded_at, id)
LaterObservation(a, b) ==
    \/ OwnerRecordedAt(a) > OwnerRecordedAt(b)
    \/ OwnerRecordedAt(a) = OwnerRecordedAt(b) /\ a.id > b.id

\* the latest observation of each identifier
LatestObservations ==
    {j \in Owned :
        \A o \in Owned : o.job_identifier = j.job_identifier /\ o # j =>
            LaterObservation(j, o)}

\* C22: jobMetrics(limit) has no two entries with one job_identifier; each
\* entry shows the observation of its identifier that is greatest in
\* (owning snapshot's recorded_at, observation id); and the entries are the
\* min(limit, number of distinct identifiers) identifiers whose latest
\* observation is most recent, most recent first.
C22_JobMetricsLatestPerIdentifier ==
    \A limit \in JobLimitInputs :
        LET recent == GetJobMetrics(limit).recent
            k == Min(limit, Cardinality({j.job_identifier : j \in Owned}))
        IN  /\ Len(recent) = k
            /\ \A a, b \in 1..Len(recent) :
                    a # b => recent[a].job_identifier # recent[b].job_identifier
            /\ \A i \in 1..Len(recent) :
                    \E j \in LatestObservations :
                        /\ recent[i].job_identifier = j.job_identifier
                        /\ recent[i].progress = <<j.progress>>
                        /\ recent[i].status = j.status_value
                        /\ recent[i].is_active = j.is_active
                        /\ recent[i].last_seen_at = [utc |-> OwnerRecordedAt(j)]
                        /\ Cardinality({o \in LatestObservations :
                                            LaterObservation(o, j)}) = i - 1

\* job-1 seen completed in a snapshot recorded at 1, then job-1 running with
\* job-2 queued stored with recorded_at 0: jobMetrics(1) lists the completed
\* job-1 alone, and jobMetrics(2) lists job-2 after it
C22_Witness ==
    /\ Cardinality(statusRows) = 2
    /\ Cardinality(jobRows) = 3
    /\ \A j \in jobRows : (j.status_value = "completed") = (j.status_id = 1)
    /\ \A r \in statusRows : r.recorded_at = 2 - r.id
    /\ LET one == GetJobMetrics(1).recent
           two == GetJobMetrics(2).recent
       IN  /\ Len(one) = 1
           /\ one[1].job_identifier = "job-1"
           /\ one[1].status = "completed"
           /\ Len(two) = 2
           /\ two[2].job_identifier = "job-2"

\* the sum of a histogram's counts
RECURSIVE SumOfCounts(_)
SumOfCounts(totals) ==
    IF DOMAIN totals = {} THEN 0
    ELSE LET v == CHOOSE x \in DOMAIN totals : TRUE
         IN  totals[v] + SumOfCounts([x \in DOMAIN totals \ {v} |-> totals[x]])

\* the histogram counts each identifier once, by its latest status
CountsLatestStatus(totals) ==
    /\ DOMAIN totals = {j.status_value : j \in LatestObservations}
    /\ \A v \in DOMAIN totals :
            totals[v] = Cardinality({j \in LatestObservations : j.status_value = v})

\* C23 as claimed: the histogram of jobMetrics(limit) counts each identifier
\* once, by the status of its latest observation, and its counts sum to the
\* number of entries returned.
C23_HistogramSumsToEntriesReturned ==
    \A limit \in JobLimitInputs :
        /\ CountsLatestStatus(GetJobMetrics(limit).status_totals)
        /\ SumOfCounts(GetJobMetrics(limit).status_totals)
                = Len(GetJobMetrics(limit).recent)

\* C23 as amended: the histogram of jobMetrics(limit) counts each identifier
\* once, by the status of its latest observation, over all identifiers
\* whatever the limit: its counts sum to the number of distinct identifiers,
\* which is the number of entries returned when limit is at least that
\* number, and never to the number of observation rows with duplicates.
C23_HistogramCountsEveryIdentifierOnce ==
    \A limit \in JobLimitInputs :
        LET metrics == GetJobMetrics(limit)
            identifiers == {j.job_identifier : j \in Owned}
        IN  /\ CountsLatestStatus(metrics.status_totals)
            /\ SumOfCounts(metrics.status_totals) = Cardinality(identifiers)
            /\ limit >= Cardinality(identifiers) =>
                    SumOfCounts(metrics.status_totals) = Len(metrics.recent)

\* job-1 seen running with job-2 queued, then seen completed: three
\* observations, two identifiers; the histogram is completed 1, queued 1
\* whether one entry or two are returned
C23_Witness ==
    /\ Cardinality(Owned) = 3
    /\ Cardinality({j.job_identifier : j \in Owned}) = 2
    /\ Len(GetJobMetrics(1).recent) = 1
    /\ Len(GetJobMetrics(2).recent) = 2
    /\ GetJobMetrics(1).status_totals = [v \in {"completed", "queued"} |-> 1]

\* ------------------------------------------------- stream properties

\* C24: for every client connection, once the client drops the connection
\* the subscription registered at connect is removed from the broadcaster.
C24_DroppedClientIsDisconnected ==
    \A c \in Subs :
        (stream[c].client = "dropped") ~> (stream[c].queue \notin queues)

\* ------------------------------------------------- board asset properties

\* the request carried a valid upload or moderator token
ValidToken(response) ==
    \/ response.key = UploadToken
    \/ response.moderator = ModerationToken

\* C25: a listing without credentials never returns an asset that is
\* pending moderation; a listing that filters for pending assets is
\* answered 403 without a valid moderator or upload token, and with either
\* valid token it returns the pending assets.
C25_PendingAssetsNeedAToken ==
    LET response == assets.response
    IN  response.endpoint = "list" =>
            /\ response.key = <<>> /\ response.moderator = <<>> /\ response.code = 200 =>
                    \A a \in response.assets : a.moderation_status # "pending"
            /\ response.filter = <<"pending">> /\ ~ValidToken(response) =>
                    response.code = 403
            /\ response.filter = <<"pending">> /\ ValidToken(response) =>
                    /\ response.code = 200
                    /\ \A a \in response.assets : a.moderation_status = "pending"

\* ------------------------------------------- concurrent ingestion properties

\* C26: with several ingestions in flight, snapshots are published in the
\* order in which they were persisted (increasing id among snapshots of one
\* recorded_at), so the snapshot a lagging subscriber finds in its slot is
\* never older than a persisted snapshot that was published before it.
C26_PublishedInPersistedOrder ==
    /\ \A m, n \in 1..Len(request.published) :
            m < n => request.published[m] < request.published[n]
    /\ \A q \in Subs : slot[q] # <<>> =>
            \A n \in 1..(slot[q][1] - 1) :
                request.published[n] < request.published[slot[q][1]]

\* ------------------------------------------------- lock properties

\* the tasks inside an `async with self._lock` block
InBlock == {t \in Tasks : locking.task[t].pc = "locked"}

\* task t leaves the block of the call op in this step
Leaves(t, op) ==
    /\ locking.task[t].pc = "locked"
    /\ locking.task[t].op = op
    /\ locking'.task[t].pc # "locked"

\* C27: at most one task at a time is inside a block guarded by the lock,
\* and it is the lock's holder; the set changes only in the step of a task
\* that holds the lock, and then by exactly that task's change (a connect
\* adds one new queue, a disconnect removes its queue, a reset removes all:
\* none is lost); publish copies the set while it holds the lock and loops
\* over that copy after it has released the lock.
C27_MembershipUnderOneLock ==
    /\ [](/\ Cardinality(InBlock) <= 1
          /\ \A t \in Tasks : (locking.holder = <<t>>) = (t \in InBlock)
          /\ \A t \in Tasks : locking.task[t].pc = "deliver" => locking.holder # <<t>>)
    /\ [][/\ queues' # queues => \E t \in InBlock : locking.holder = <<t>>
          /\ \A t \in Tasks :
                /\ Leaves(t, "connect") =>
                        /\ queues \subseteq queues'
                        /\ Cardinality(queues' \ queues) = 1
                        /\ queues' \ queues = created' \ created
                /\ Leaves(t, "disconnect") => queues' = queues \ {locking.task[t].q}
                /\ Leaves(t, "reset") => queues' = {}
                /\ Leaves(t, "publish") =>
                        /\ locking'.task[t].copy = queues
                        /\ locking'.holder = <<>>
                        /\ slot' = slot
                /\ locking.task[t].pc = "deliver" /\ locking'.task[t].pc = "idle" =>
                        /\ locking.holder # <<t>>
                        /\ \A q \in Subs : slot'[q] # slot[q] => q \in locking.task[t].copy
         ]_vars

\* a connect, a publish that reached the connected queue, and a disconnect
\* of that queue have all run, and the lock is free
C27_Witness ==
    /\ locking.holder = <<>>
    /\ \A t \in Tasks : locking.task[t].pc = "idle"
    /\ locking.calls >= 3
    /\ created = {1}
    /\ queues = {}
    /\ slot[1] = <<1>>

\* ------------------------------------------------- configuration properties

\* the integer a configured text denotes, or the default when unset
Denoted(value, texts, default) ==
    IF value = <<>> THEN default
    ELSE (CHOOSE p \in texts : p[1] = value[1])[2]

\* C28: the effective retention window is max(0, configured days) and the
\* effective cleanup interval is max(60, configured seconds), with 30 and
\* 3600 for unset values; with an effective retention of 0 a tick's cutoff
\* is the current time, and when its purge commits no snapshot recorded
\* before the tick is left, except those committed after the tick began.
C28_EffectiveRetentionAndInterval ==
    /\ [](/\ retention = Max(0, Denoted(config.days, DaysTexts, 30))
          /\ config.cleanup_interval = Max(60, Denoted(config.seconds, SecondsTexts, 3600)))
    /\ [][retention = 0 =>
            /\ purge'.pc = "running" /\ purge.pc # "running" => purge'.cutoff = now
            /\ purge.pc = "executed" /\ purge'.pc = "sleep" =>
                    \A r \in statusRows' : r.recorded_at < purge.cutoff => r.id \in purge.mid
         ]_vars

\* the retention is configured as -1 and the interval as 59: the window is
\* 0 and the interval 60, and a tick has purged a snapshot recorded before it
C28_Witness ==
    /\ config.days = << <<"-", "1">> >>
    /\ config.seconds = << <<"5", "9">> >>
    /\ retention = 0
    /\ config.cleanup_interval = 60
    /\ purge.pc = "sleep"
    /\ purge.cutoff = 1
    /\ removed # {}
    /\ statusRows = {}

\* ---------------------------------------------------- connection count

\* C29: connection_count is the number of subscriptions connected and not
\* yet removed: it starts at 0, a connect adds one, a disconnect of a
\* registered subscription takes one away and any other disconnect none, a
\* reset brings it to 0 whatever it was, and a publish or a read leaves it;
\* a publish that runs while the count is 0 changes no slot.
C29_ConnectionCountTracksSubscriptions ==
    /\ [](/\ lastOp.op = "none" => ConnectionCount = 0
          /\ lastOp.op = "reset" => ConnectionCount = 0 /\ queues = {})
    /\ [][ /\ lastOp'.op = "connect" => ConnectionCount' = ConnectionCount + 1
           /\ lastOp'.op = "disconnect" =>
                ConnectionCount' = ConnectionCount - (IF lastOp'.member THEN 1 ELSE 0)
           /\ lastOp'.op = "reset" => ConnectionCount' = 0
           /\ lastOp'.op \in {"publish", "read"} => ConnectionCount' = ConnectionCount
           /\ lastOp'.op = "publish" /\ ConnectionCount = 0 => slot' = slot
         ]_vars

\* two subscriptions received the first snapshot and kept it unread, every
\* subscription is gone, and a later publish has just run with nobody
\* registered
C29_Witness ==
    /\ lastOp.op = "publish"
    /\ ConnectionCount = 0
    /\ Len(audience) = 2
    /\ audience[1] = Subs
    /\ audience[2] = {}
    /\ \A q \in Subs : slot[q] = <<1>>

\* ------------------------------------------------ observation properties

\* the observations and readings a snapshot owns, as snapshot.jobs and
\* snapshot.temperatures load them
JobsOwnedBy(id) == {j \in jobRows : j.status_id = id}

ReadingsOwnedBy(id) == {t \in tempRows : t.status_id = id}

\* C30: each snapshot owns at most one observation flagged is_active.  An
\* append stores, for the snapshot it creates, one is_active observation if
\* the payload has an active job and none otherwise, one observation not
\* flagged per queued job and one reading per supplied reading, and these
\* are all that the snapshot owns; no other step adds an observation or a
\* reading, and no step changes the flag or the owner of a stored one.
C30_AtMostOneActiveObservation ==
    /\ [](\A r \in statusRows :
                Cardinality({j \in JobsOwnedBy(r.id) : j.is_active}) <= 1)
    /\ [][ /\ \A r \in statusRows' \ statusRows :
                nextId'.status # nextId.status =>
                    \E shape \in Shapes :
                        /\ r.state = shape.state
                        /\ Cardinality({j \in JobsOwnedBy(r.id)' : j.is_active})
                                = Len(shape.active_job)
                        /\ Cardinality({j \in JobsOwnedBy(r.id)' : ~j.is_active})
                                = Len(shape.queued_jobs)
                        /\ Cardinality(ReadingsOwnedBy(r.id)') = Len(shape.temperatures)
           /\ nextId'.status = nextId.status =>
                    jobRows' \subseteq jobRows /\ tempRows' \subseteq tempRows
           /\ \A j \in jobRows : \A k \in jobRows' : k.id = j.id => k = j
         ]_vars
====
